---- MODULE Spec2Model ----
(***************************************************************************)
(* A model of squid, an embedded event log on an ordered key-value store.  *)
(*                                                                         *)
(* Strings are sequences of byte values, keys are byte strings, the store  *)
(* is a map from keys to values that is iterated in bytewise key order.    *)
(* Time is counted in ticks; one millisecond is TicksPerMs ticks, so that  *)
(* timestamps finer than the identifier's millisecond exist.               *)
(***************************************************************************)
EXTENDS Integers, Sequences, FiniteSets, TLC

(***************************************************************************)
(* Bounds of the model.                                                    *)
(***************************************************************************)
\* the events the writes of one behaviour return
MaxEvents == 2
\* ticks per millisecond (the resolution of time.Time below one millisecond)
TicksPerMs == 3
\* the milliseconds of the model are 1..MaxMs
MaxMs == 2
\* the entropy of an identifier ranges over 1..MaxEntropy
MaxEntropy == 2
\* the monotonic increment is drawn from 1..MaxInc
MaxInc == 1
\* the events of one batch
MaxBatch == 2
\* the identifiers drawn when the ID source is exercised
MaxDraws == 3
\* the characters of an identifier's string that hold its time, its entropy
TimeChars == 2
EntropyChars == 2
\* the goroutines that call the handle, the retention tasks one handle starts
MaxClients == 2
MaxTasks == 2
\* the retention tasks of a handle whose data-plane calls run beside them
MaxLifeTasks == 1
\* the bits of a float's mantissa (53 in float64) and the exponent of the
\* largest float
MantissaBits == 5
MaxExponent == 8
\* the values a percentile aggregation buffers (1,000,000 in the source)
maxPercentileValues == 1
\* the values percentile is applied to
MaxValues == 2
\* the rows exportCSV writes between two looks at its context (1,000 in
\* the source)
rowsPerCheck == 1
\* the byte strings that prefixEnd is applied to: up to MaxKeyLen bytes
\* from 0x00..MaxLowByte and 0xFF
MaxKeyLen == 3
MaxLowByte == 2
\* the clock runs MaxLate ticks past the last instant of an event, and
\* MaxMinutes minutes
MaxLate == 2
MaxMinutes == 1

(***************************************************************************)
(* Bytes and byte strings.                                                 *)
(***************************************************************************)
Colon == 58
EqualsSign == 61
ByteFF == 255

Min(a, b) == IF a < b THEN a ELSE b

RECURSIVE LexLessFrom(_, _, _)
LexLessFrom(a, b, i) ==
    IF i > Len(a) THEN i <= Len(b)
    ELSE IF i > Len(b) THEN FALSE
    ELSE IF a[i] # b[i] THEN a[i] < b[i]
    ELSE LexLessFrom(a, b, i + 1)

\* bytes.Compare(a, b) < 0
LexLess(a, b) == LexLessFrom(a, b, 1)

\* bytes.HasPrefix(s, p)
HasPrefix(s, p) ==
    /\ Len(p) <= Len(s)
    /\ \A i \in 1..Len(p) : s[i] = p[i]

Reverse(s) == [i \in 1..Len(s) |-> s[Len(s) + 1 - i]]

RECURSIVE TakeWhilePrefix(_, _)
\* the longest initial run of keys that carry the prefix
TakeWhilePrefix(keys, p) ==
    IF keys = <<>> \/ ~HasPrefix(Head(keys), p) THEN <<>>
    ELSE <<Head(keys)>> \o TakeWhilePrefix(Tail(keys), p)

(***************************************************************************)
(* Identifiers (github.com/oklog/ulid/v2): 48 bits of milliseconds and 80  *)
(* bits of entropy, written as 10 + 16 Crockford base32 characters, the    *)
(* 26 bytes that end every key.  The model keeps the layout and writes     *)
(* TimeChars + EntropyChars characters.                                    *)
(***************************************************************************)
EncodedSize == TimeChars + EntropyChars

\* "0123456789ABCDEFGHJKMNPQRSTVWXYZ"
Encoding ==
    << 48, 49, 50, 51, 52, 53, 54, 55, 56, 57,
       65, 66, 67, 68, 69, 70, 71, 72, 74, 75,
       77, 78, 80, 81, 82, 83, 84, 86, 87, 88, 89, 90 >>

RECURSIVE EncodeBase32(_, _)
\* n in k base32 characters, most significant first
EncodeBase32(n, k) ==
    IF k = 0 THEN <<>>
    ELSE Append(EncodeBase32(n \div 32, k - 1), Encoding[(n % 32) + 1])

\* the identifiers of the model and their strings
ULIDs == [ms : 0..MaxMs, ent : 0..MaxEntropy]

ULIDStrings ==
    [id \in ULIDs |->
        EncodeBase32(id.ms, TimeChars) \o EncodeBase32(id.ent, EncodedSize - TimeChars)]

\* ULID.String()
ULIDString(id) == ULIDStrings[id]

\* the decoding table: the digit of a character of the alphabet in upper
\* or lower case, 0xFF for any other byte
dec(c) ==
    IF c \in 48..57 THEN c - 48            \* '0'..'9'
    ELSE IF c \in 65..72 THEN c - 55       \* 'A'..'H'
    ELSE IF c \in 74..75 THEN c - 56       \* 'J', 'K'
    ELSE IF c \in 77..78 THEN c - 57       \* 'M', 'N'
    ELSE IF c \in 80..84 THEN c - 58       \* 'P'..'T'
    ELSE IF c \in 86..90 THEN c - 59       \* 'V'..'Z'
    ELSE IF c \in 97..104 THEN c - 87      \* 'a'..'h'
    ELSE IF c \in 106..107 THEN c - 88     \* 'j', 'k'
    ELSE IF c \in 109..110 THEN c - 89     \* 'm', 'n'
    ELSE IF c \in 112..116 THEN c - 90     \* 'p'..'t'
    ELSE IF c \in 118..122 THEN c - 91     \* 'v'..'z'
    ELSE ByteFF

RECURSIVE DecodeBase32(_, _)
DecodeBase32(s, i) ==
    IF i = 0 THEN 0
    ELSE 32 * DecodeBase32(s, i - 1) + dec(s[i])

\* ulid.ParseStrict: exactly EncodedSize characters of the alphabet, the
\* first at most '7'
ParseStrict(s) ==
    IF Len(s) # EncodedSize THEN [ok |-> FALSE]
    ELSE IF \E i \in 1..Len(s) : dec(s[i]) = ByteFF THEN [ok |-> FALSE]
    ELSE IF dec(s[1]) > 7 THEN [ok |-> FALSE]
    ELSE [ok |-> TRUE,
          id |-> [ms  |-> DecodeBase32(SubSeq(s, 1, TimeChars), TimeChars),
                  ent |-> DecodeBase32(SubSeq(s, TimeChars + 1, EncodedSize),
                                       EncodedSize - TimeChars)]]

\* ulid.Timestamp(t): the time in whole milliseconds
Timestamp(t) == t \div TicksPerMs

\* ulidTime(id): the start of the identifier's millisecond
ulidTime(id) == id.ms * TicksPerMs

\* ULID.Compare(a, b) < 0
ULIDLess(a, b) == a.ms < b.ms \/ (a.ms = b.ms /\ a.ent < b.ent)

(***************************************************************************)
(* Key codec.                                                              *)
(***************************************************************************)
prefixEvent == <<101, Colon>>
prefixTag == <<116, Colon>>
prefixType == <<121, Colon>>
eventKeyLen == Len(prefixEvent) + EncodedSize

encodeEventKey(id) == prefixEvent \o ULIDString(id)

decodeEventKey(key) ==
    IF Len(key) < eventKeyLen THEN [ok |-> FALSE]
    ELSE ParseStrict(SubSeq(key, Len(prefixEvent) + 1, Len(key)))

encodeTagIndexKey(tagKey, tagValue, id) ==
    prefixTag \o tagKey \o <<EqualsSign>> \o tagValue \o <<Colon>> \o ULIDString(id)

encodeTagIndexPrefix(tagKey, tagValue) ==
    prefixTag \o tagKey \o <<EqualsSign>> \o tagValue \o <<Colon>>

decodeTagIndexKey(key) ==
    IF Len(key) < EncodedSize THEN [ok |-> FALSE]
    ELSE ParseStrict(SubSeq(key, Len(key) - EncodedSize + 1, Len(key)))

encodeTypeIndexKey(eventType, id) ==
    prefixType \o eventType \o <<Colon>> \o ULIDString(id)

encodeTypeIndexPrefix(eventType) == prefixType \o eventType \o <<Colon>>

\* a decoder that takes what follows the first delimiter after the prefix
decodeAfterDelimiter(key) ==
    LET i == CHOOSE j \in (Len(prefixType) + 1)..Len(key) :
                 /\ key[j] = Colon
                 /\ \A h \in (Len(prefixType) + 1)..(j - 1) : key[h] # Colon
    IN  ParseStrict(SubSeq(key, i + 1, Len(key)))

decodeTypeIndexKey(key) ==
    IF Len(key) < EncodedSize THEN [ok |-> FALSE]
    ELSE ParseStrict(SubSeq(key, Len(key) - EncodedSize + 1, Len(key)))

\* the decoder the index scan calls: the identifier that ends an index key
decodeIndexKey(key) ==
    IF Len(key) < EncodedSize THEN [ok |-> FALSE]
    ELSE ParseStrict(SubSeq(key, Len(key) - EncodedSize + 1, Len(key)))

eventKeyPrefix == prefixEvent

RECURSIVE prefixEndFrom(_, _)
prefixEndFrom(end, i) ==
    IF i = 0 THEN <<>>
    ELSE LET inc == [end EXCEPT ![i] = (end[i] + 1) % (ByteFF + 1)]
         IN  IF inc[i] # 0 THEN inc ELSE prefixEndFrom(inc, i - 1)

\* the key just past all keys with the prefix; nil (the empty key) when every
\* byte is 0xFF
prefixEnd(prefix) == prefixEndFrom(prefix, Len(prefix))

(***************************************************************************)
(* float64.  A float is m * 2^e with an odd m of at most MantissaBits bits *)
(* (zero is 0 * 2^0); every operation rounds its exact result to the       *)
(* nearest float, ties to the even mantissa.  Exponents are not bounded:   *)
(* no value of the model overflows or is subnormal.                        *)
(***************************************************************************)
RECURSIVE Pow2(_)
Pow2(k) == IF k = 0 THEN 1 ELSE 2 * Pow2(k - 1)

Abs(n) == IF n < 0 THEN -n ELSE n

RECURSIVE BitLen(_)
\* the number of bits of n >= 0
BitLen(n) == IF n = 0 THEN 0 ELSE 1 + BitLen(n \div 2)

RECURSIVE Canon(_, _)
\* m * 2^e with an odd mantissa
Canon(m, e) ==
    IF m = 0 THEN [m |-> 0, e |-> 0]
    ELSE IF m % 2 = 0 THEN Canon(m \div 2, e + 1)
    ELSE [m |-> m, e |-> e]

\* the float nearest to m * 2^e, ties to even
RoundNE(m, e) ==
    LET a  == Abs(m)
        sh == BitLen(a) - MantissaBits
    IN  IF sh <= 0 THEN Canon(m, e)
        ELSE LET q    == a \div Pow2(sh)
                 r    == a % Pow2(sh)
                 half == Pow2(sh - 1)
                 up   == IF r > half \/ (r = half /\ q % 2 = 1) THEN 1 ELSE 0
             IN  Canon((IF m < 0 THEN -1 ELSE 1) * (q + up), e + sh)

\* float64(n) of an integer
FromInt(n) == RoundNE(n, 0)

\* the float nearest to (n / d) * 2^e, for d > 0: the quotient is taken with
\* two bits more than a mantissa and a sticky bit for the remainder
Ratio(n, d, e) ==
    LET s == MantissaBits + 2 + BitLen(d)
        q == (Abs(n) * Pow2(s)) \div d
        sticky == IF (Abs(n) * Pow2(s)) % d # 0 THEN 1 ELSE 0
    IN  RoundNE((IF n < 0 THEN -1 ELSE 1) * (2 * q + sticky), e - s - 1)

\* the mantissas of x and y at their common exponent
Aligned(x, y) ==
    LET e == Min(x.e, y.e)
    IN  [x |-> x.m * Pow2(x.e - e), y |-> y.m * Pow2(y.e - e), e |-> e]

\* x + y
FAdd(x, y) == RoundNE(Aligned(x, y).x + Aligned(x, y).y, Aligned(x, y).e)

\* x - y
FSub(x, y) == RoundNE(Aligned(x, y).x - Aligned(x, y).y, Aligned(x, y).e)

\* x * y
FMul(x, y) == RoundNE(x.m * y.m, x.e + y.e)

\* x / y for y # 0
FDiv(x, y) ==
    IF y.m < 0 THEN Ratio(-x.m, -y.m, x.e - y.e) ELSE Ratio(x.m, y.m, x.e - y.e)

\* x < y
FLess(x, y) == Aligned(x, y).x < Aligned(x, y).y

\* int(x) for x >= 0
Trunc(x) == IF x.e >= 0 THEN x.m * Pow2(x.e) ELSE x.m \div Pow2(-x.e)

FZero == [m |-> 0, e |-> 0]
FOne == [m |-> 1, e |-> 0]

(***************************************************************************)
(* Event codec (encoding/json).  Marshal writes strings coerced to valid   *)
(* UTF-8: every byte that does not begin a well-formed sequence becomes    *)
(* U+FFFD.  Timestamps are written in RFC 3339 with nanoseconds,           *)
(* identifiers as their string.                                            *)
(***************************************************************************)
ReplacementChar == <<239, 191, 189>>

\* a continuation byte of UTF-8
Continuation(b) == b \in 128..191

\* utf8.DecodeRuneInString(s) for a non-empty s: the width of the
\* well-formed sequence that s begins with, or 0 when it begins with none
\* (RuneError of width 1).  The second byte of a sequence is confined so
\* that overlong forms, surrogates and values above U+10FFFF are excluded.
DecodeRuneWidth(s) ==
    LET b == s[1]
        lo == IF b = 224 THEN 160 ELSE IF b = 240 THEN 144 ELSE 128
        hi == IF b = 237 THEN 159 ELSE IF b = 244 THEN 143 ELSE 191
    IN  IF b < 128 THEN 1
        ELSE IF b \in 194..223
        THEN IF Len(s) >= 2 /\ Continuation(s[2]) THEN 2 ELSE 0
        ELSE IF b \in 224..239
        THEN IF Len(s) >= 3 /\ s[2] \in lo..hi /\ Continuation(s[3]) THEN 3 ELSE 0
        ELSE IF b \in 240..244
        THEN IF /\ Len(s) >= 4 /\ s[2] \in lo..hi
                /\ Continuation(s[3]) /\ Continuation(s[4]) THEN 4 ELSE 0
        ELSE 0

RECURSIVE jsonString(_)
\* a string through Marshal and Unmarshal
jsonString(s) ==
    IF s = <<>> THEN <<>>
    ELSE LET w == DecodeRuneWidth(s)
         IN  IF w = 0 THEN ReplacementChar \o jsonString(Tail(s))
             ELSE SubSeq(s, 1, w) \o jsonString(SubSeq(s, w + 1, Len(s)))

\* a map[string]string through Marshal and Unmarshal: of the keys that are
\* written as the same JSON string the last one written (the greatest) wins
jsonTags(tags) ==
    LET names == {jsonString(k) : k \in DOMAIN tags}
        winner(n) == CHOOSE k \in DOMAIN tags :
                      /\ jsonString(k) = n
                      /\ \A o \in DOMAIN tags :
                            jsonString(o) = n => (o = k \/ LexLess(o, k))
    IN  [n \in names |-> jsonString(tags[winner(n)])]

\* event.Data; an event of the model without the field has a nil map
DataOf(event) == IF "Data" \in DOMAIN event THEN event.Data ELSE <<>>

RECURSIVE jsonValue(_)
\* a value of map[string]any as JSON: nil as null, a bool, a float64 as the
\* shortest decimal that reads back as the same float, an int as its digits,
\* a string coerced, a slice as the array of its items
jsonValue(v) ==
    IF v.kind = "nil" THEN [null |-> TRUE]
    ELSE IF v.kind = "bool" THEN [bool |-> v.b]
    ELSE IF v.kind = "float64" THEN [num |-> v.f]
    ELSE IF v.kind = "int" THEN [num |-> [m |-> v.n, e |-> 0]]
    ELSE IF v.kind = "string" THEN [str |-> jsonString(v.s)]
    ELSE [arr |-> [i \in 1..Len(v.items) |-> jsonValue(v.items[i])]]

RECURSIVE anyValue(_)
\* a JSON value read into an any: a number becomes the nearest float64, an
\* array a []any
anyValue(j) ==
    IF "null" \in DOMAIN j THEN [kind |-> "nil"]
    ELSE IF "bool" \in DOMAIN j THEN [kind |-> "bool", b |-> j.bool]
    ELSE IF "num" \in DOMAIN j THEN [kind |-> "float64", f |-> RoundNE(j.num.m, j.num.e)]
    ELSE IF "str" \in DOMAIN j THEN [kind |-> "string", s |-> j.str]
    ELSE [kind |-> "array", items |-> [i \in 1..Len(j.arr) |-> anyValue(j.arr[i])]]

\* a map[string]any as JSON, keys as in jsonTags
jsonData(data) ==
    LET names == {jsonString(k) : k \in DOMAIN data}
        winner(n) == CHOOSE k \in DOMAIN data :
                      /\ jsonString(k) = n
                      /\ \A o \in DOMAIN data :
                            jsonString(o) = n => (o = k \/ LexLess(o, k))
    IN  [n \in names |-> jsonValue(data[winner(n)])]

\* json.Marshal(event); data is omitted when the map is empty
Marshal(event) ==
    IF DOMAIN DataOf(event) = {}
    THEN [id        |-> ULIDString(event.ID),
          timestamp |-> event.Timestamp,
          type      |-> jsonString(event.Type),
          tags      |-> jsonTags(event.Tags)]
    ELSE [id        |-> ULIDString(event.ID),
          timestamp |-> event.Timestamp,
          type      |-> jsonString(event.Type),
          tags      |-> jsonTags(event.Tags),
          data      |-> jsonData(event.Data)]

\* json.Unmarshal(val, &event); the value of an index entry is no JSON text
Unmarshal(val) ==
    IF "id" \notin DOMAIN val THEN [ok |-> FALSE]
    ELSE LET p == ParseStrict(val.id)
         IN  IF ~p.ok THEN [ok |-> FALSE]
             ELSE IF "data" \notin DOMAIN val
             THEN [ok |-> TRUE,
                   event |-> [ID        |-> p.id,
                              Timestamp |-> val.timestamp,
                              Type      |-> val.type,
                              Tags      |-> val.tags]]
             ELSE [ok |-> TRUE,
                   event |-> [ID        |-> p.id,
                              Timestamp |-> val.timestamp,
                              Type      |-> val.type,
                              Tags      |-> val.tags,
                              Data      |-> [k \in DOMAIN val.data |->
                                                anyValue(val.data[k])]]]

\* the value of an index entry (nil)
NoValue == [empty |-> TRUE]

\* a validation that accepts every event
validateAll(event) == "nil"

\* Event.validate
validate(event) == IF event.Type = <<>> THEN "ErrEmptyType" ELSE "nil"

(***************************************************************************)
(* The store: badger as the sequence of its entries in ascending bytewise  *)
(* key order, and its transactions.  A transaction buffers its writes;     *)
(* Update applies them only when the callback returned nil and the commit  *)
(* succeeded.                                                              *)
(***************************************************************************)
Keys(store) == {store[i].key : i \in 1..Len(store)}

HasKey(store, key) == \E i \in 1..Len(store) : store[i].key = key

\* txn.Get(key) of a key that is present
ValueOf(store, key) == store[CHOOSE i \in 1..Len(store) : store[i].key = key].val

SetKey(store, key, val) ==
    LET below == Cardinality({i \in 1..Len(store) : LexLess(store[i].key, key)})
        from  == IF HasKey(store, key) THEN below + 2 ELSE below + 1
    IN  SubSeq(store, 1, below) \o <<[key |-> key, val |-> val]>>
        \o SubSeq(store, from, Len(store))

DeleteKey(store, key) == SelectSeq(store, LAMBDA en : en.key # key)

RECURSIVE ApplyWrites(_, _)
ApplyWrites(store, ws) ==
    IF ws = <<>> THEN store
    ELSE LET w == Head(ws)
         IN  ApplyWrites(IF w.del THEN DeleteKey(store, w.key)
                         ELSE SetKey(store, w.key, w.val), Tail(ws))

\* a transaction whose commit failed is taken as committed
UpdateIgnoresCommitError(store, ws, fnErr, commitOK) ==
    IF fnErr THEN store ELSE ApplyWrites(store, ws)

\* a transaction is committed although its callback returned an error
UpdateCommitsAfterError(store, ws, fnErr, commitOK) ==
    IF ~commitOK THEN store ELSE ApplyWrites(store, ws)

\* badger.DB.Update(fn): ws are the writes fn buffered, fnErr whether fn
\* returned an error, commitOK whether the commit went through
Update(store, ws, fnErr, commitOK) ==
    IF fnErr \/ ~commitOK THEN store ELSE ApplyWrites(store, ws)

\* the keys an iterator visits from Seek(seekKey) on, in its direction; an
\* empty seek key rewinds to the first key of the direction
IterFrom(store, seekKey, reverse) ==
    LET all == [i \in 1..Len(store) |-> store[i].key]
    IN  IF ~reverse
        THEN SelectSeq(all, LAMBDA k : k = seekKey \/ LexLess(seekKey, k))
        ELSE IF seekKey = <<>> THEN Reverse(all)
        ELSE Reverse(SelectSeq(all, LAMBDA k : k = seekKey \/ LexLess(k, seekKey)))

\* for it.Seek(seekKey); it.ValidForPrefix(prefix); it.Next()
ScanPrefix(store, prefix, reverse) ==
    TakeWhilePrefix(
        IterFrom(store, IF reverse THEN prefixEnd(prefix) ELSE prefix, reverse),
        prefix)

(***************************************************************************)
(* ID source: ulid.Monotonic(rand.Reader, 0).  A call for the millisecond  *)
(* of the previous call adds a random increment to the previous entropy;   *)
(* a call for another millisecond reads fresh entropy.  Random values are  *)
(* drawn from 1..MaxEntropy and a draw never repeats an identifier that a  *)
(* write returned before (80 random bits); the entropy never overflows     *)
(* (the guard caps it at MaxEntropy).                                      *)
(***************************************************************************)
ULID(ms, ent) == [ms |-> ms, ent |-> ent]

\* the entropies ulidSource.New(t) may produce
NewEntropies(src, t, used) ==
    LET ms == Timestamp(t)
        cand == IF src.entropy # 0 /\ src.ms = ms
                THEN {src.entropy + inc : inc \in 1..MaxInc}
                ELSE 1..MaxEntropy
    IN  {e \in cand : e <= MaxEntropy /\ ULID(ms, e) \notin used}

\* the identifier ulidSource.New(t) returns when the entropy is e
NewID(t, e) == ULID(Timestamp(t), e)

\* the state of the source after that call
NewSource(t, e) == [ms |-> Timestamp(t), entropy |-> e]

(***************************************************************************)
(* The inputs of the calls.                                                *)
(***************************************************************************)
\* the zero time.Time
ZeroTime == 0

None == [some |-> FALSE]
Some(v) == [some |-> TRUE, v |-> v]

TypeA == <<97>>
TypeB == <<98>>
\* a string that is not valid UTF-8
TypeX == <<ByteFF>>

TagK == <<107>>
TagV == <<118>>
\* the tag name "k=v:", which holds the delimiters of the tag index
TagJ == <<107, EqualsSign, 118, Colon>>

\* the tag maps {k: v} and {k: v, "k=v:": ""}
TagsKV == TagK :> TagV
TagsKVJ == (TagK :> TagV) @@ (TagJ :> <<>>)

\* the instants of the model: whole and fractional milliseconds
Ticks == TicksPerMs..(MaxMs * TicksPerMs)

MaxTick == MaxMs * TicksPerMs

\* time.Minute
Minute == 60000 * TicksPerMs

\* the instants at which the clock is read: those of the events, MaxLate
\* ticks more, and the last of them each minute later
Instants ==
    (TicksPerMs..(MaxTick + MaxLate))
    \cup {n * Minute + MaxTick + MaxLate : n \in 1..MaxMinutes}

\* the timestamps a caller supplies: none, or an instant before the clock's
CallerTimes == {ZeroTime} \cup (Ticks \ {MaxTick})

\* the events of the writes: types "", "a" and "\xff", with and without tags
EventInputs ==
    [Type : {<<>>, TypeA, TypeX}, Tags : {<<>>, TagsKVJ}, Timestamp : CallerTimes]

\* the events of a batch
BatchEvents ==
    [Type : {<<>>, TypeA}, Tags : {<<>>, TagsKVJ},
     Timestamp : {ZeroTime, TicksPerMs}]

\* the events that exercise the ID source
IDEvents == [Type : {TypeA}, Tags : {<<>>}, Timestamp : CallerTimes]

\* the events that are queried
QueryEvents ==
    [Type : {TypeA, TypeB}, Tags : {<<>>, TagsKV, TagsKVJ}, Timestamp : CallerTimes]

\* the events that are deleted: without tags and with two, at the caller's
\* timestamps
DeleteEvents == [Type : {TypeA}, Tags : {<<>>, TagsKVJ}, Timestamp : Ticks \ {MaxTick}]

\* the payload fields "x" and "z"
FieldX == <<120>>
FieldZ == <<122>>

Float64(m, e) == [kind |-> "float64", f |-> Canon(m, e)]

\* the payloads: none, x as the floats 3 and 2.5, as the int 7, as a
\* string, as a bool, as a slice of ints, and another field
Payloads ==
    {<<>>, FieldX :> Float64(3, 0), FieldX :> Float64(5, -1),
     FieldX :> [kind |-> "int", n |-> 7], FieldX :> [kind |-> "string", s |-> TypeA],
     FieldX :> [kind |-> "bool", b |-> TRUE],
     FieldX :> [kind |-> "array", items |-> <<[kind |-> "int", n |-> 1],
                                              [kind |-> "int", n |-> 2]>>],
     FieldZ :> Float64(3, 0)}

\* the events that are aggregated: written inside the first millisecond
AggregateEvents ==
    [Type : {TypeA}, Tags : {<<>>, TagsKV}, Timestamp : {TicksPerMs + 1},
     Data : Payloads]

\* the query with no filter and no limit
EmptyQuery ==
    [Start |-> None, End |-> None, Types |-> <<>>, Tags |-> <<>>, Limit |-> 0,
     Descending |-> FALSE]

\* the query for all events, in both directions
AllEvents ==
    [Start : {None}, End : {None}, Types : {<<>>}, Tags : {<<>>},
     Limit : {0}, Descending : BOOLEAN]

\* the queries
Queries ==
    [Start : {None, Some(TicksPerMs + 1)}, End : {None, Some(TicksPerMs)},
     Types : {<<>>, <<TypeA>>, <<TypeA, TypeB>>},
     Tags : {<<>>, TagsKV, TagJ :> <<>>, TagsKVJ},
     Limit : {0, 1}, Descending : BOOLEAN]

\* the queries of an aggregation: all events in both directions, one type,
\* one tag, and an End inside the first millisecond
AggregateQueries ==
    {EmptyQuery, [EmptyQuery EXCEPT !.Descending = TRUE],
     [EmptyQuery EXCEPT !.Types = <<TypeA>>], [EmptyQuery EXCEPT !.Tags = TagsKV],
     [EmptyQuery EXCEPT !.End = Some(TicksPerMs)]}

\* the aggregations asked for: without and with percentiles
AggregationSets == {{"Count", "Sum", "Avg", "Min", "Max"}, {"Count", "P50", "P95", "P99"}}

\* the queries with a limit
LimitQueries ==
    [Start : {None}, End : {None},
     Types : {<<>>, <<TypeA>>, <<TypeA, TypeB>>}, Tags : {<<>>, TagsKV},
     Limit : {1}, Descending : BOOLEAN]

(***************************************************************************)
(* The state of one handle.                                                *)
(***************************************************************************)
VARIABLES
    kv,      \* the entries of db.badger in key order
    ulids,   \* db.ulids: the millisecond and entropy of the last identifier
    closed,  \* db.closed
    issued,  \* the identifiers the successful writes returned, each with
             \* the timestamp of its event
    clock,   \* the time the clock showed when it was last read
    last,    \* the last call and what it returned
    mu,         \* db.mu: the client that holds the write lock, or 0
    calls,      \* the call each client is in and its position in it
    retention,  \* db.retention: the number of a retention state, or 0 for nil
    tasks,      \* the retention states made so far, each with its goroutine
    badger      \* whether db.badger is open or closed

life == <<mu, calls, retention, tasks, badger>>

vars ==
    <<kv, ulids, closed, issued, clock, last, mu, calls, retention, tasks, badger>>

Clients == 1..MaxClients

\* a client that is in no call
Idle == [op |-> "none", pc |-> "idle", arg |-> 0]

Init ==
    /\ kv = <<>>
    /\ ulids = [ms |-> 0, entropy |-> 0]
    /\ closed = FALSE
    /\ issued = {}
    /\ clock = TicksPerMs
    /\ last = [op |-> "Open", err |-> "nil"]
    /\ mu = 0
    /\ calls = [c \in Clients |-> Idle]
    /\ retention = 0
    /\ tasks = <<>>
    /\ badger = "open"

IssuedIDs == {w.id : w \in issued}

(***************************************************************************)
(* Writer.                                                                 *)
(***************************************************************************)
RECURSIVE SortNames(_)
SortNames(S) ==
    IF S = {} THEN <<>>
    ELSE LET m == CHOOSE k \in S : \A o \in S : o = k \/ LexLess(k, o)
         IN  <<m>> \o SortNames(S \ {m})

\* the orders in which a range over the map visits its keys: any
TagOrders(tags) ==
    {order \in [1..Cardinality(DOMAIN tags) -> DOMAIN tags] :
        \A i, j \in DOMAIN order : order[i] = order[j] => i = j}

RECURSIVE RangeOrders(_)
\* one order for each of the maps
RangeOrders(maps) ==
    IF maps = <<>> THEN {<<>>}
    ELSE {<<order>> \o rest : order \in TagOrders(Head(maps)),
                              rest \in RangeOrders(Tail(maps))}

\* the txn.Set calls of one event: primary record, type index, and the tag
\* indices in the order in which the range visits event.Tags
EventWrites(event, order) ==
    <<[del |-> FALSE, key |-> encodeEventKey(event.ID), val |-> Marshal(event)],
      [del |-> FALSE, key |-> encodeTypeIndexKey(event.Type, event.ID),
       val |-> NoValue]>>
    \o [i \in 1..Len(order) |->
          [del |-> FALSE,
           key |-> encodeTagIndexKey(order[i], event.Tags[order[i]], event.ID),
           val |-> NoValue]]

\* the number of substrate calls that writing or deleting one event makes
NumWrites(event) == 2 + Cardinality(DOMAIN event.Tags)

RECURSIVE SumWrites(_)
\* the number of substrate calls that writing the events makes
SumWrites(events) ==
    IF events = <<>> THEN 0
    ELSE NumWrites(Head(events)) + SumWrites(Tail(events))

\* the timestamp of the event once stamped
StampTime(event, now) ==
    IF event.Timestamp = ZeroTime THEN now ELSE event.Timestamp

\* the event with its timestamp and identifier set
Stamp(event, now, e) ==
    IF "Data" \notin DOMAIN event
    THEN [ID |-> NewID(StampTime(event, now), e), Timestamp |-> StampTime(event, now),
          Type |-> event.Type, Tags |-> event.Tags]
    ELSE [ID |-> NewID(StampTime(event, now), e), Timestamp |-> StampTime(event, now),
          Type |-> event.Type, Tags |-> event.Tags, Data |-> event.Data]

Returned(stamped) ==
    {[id |-> stamped[i].ID, ts |-> stamped[i].Timestamp] : i \in 1..Len(stamped)}

RECURSIVE BatchWrites(_, _)
\* the txn.Set calls for the stamped events, each with the order of its tags
BatchWrites(stamped, orders) ==
    IF stamped = <<>> THEN <<>>
    ELSE EventWrites(Head(stamped), Head(orders))
         \o BatchWrites(Tail(stamped), Tail(orders))

\* db.badger.Update of Append and AppendBatch for the events that were
\* stamped.  fault is the substrate call that fails: 0 none, k the k-th
\* txn.Set, one more than the number of writes the commit.
Commit(op, stamped, orders, fault) ==
    LET ws == BatchWrites(stamped, orders)
        fnErr == fault \in 1..Len(ws)
        ok == fault = 0
    IN  /\ kv' = Update(kv, IF fnErr THEN SubSeq(ws, 1, fault - 1) ELSE ws,
                        fnErr, fault # Len(ws) + 1)
        /\ issued' = IF ok THEN issued \cup Returned(stamped) ELSE issued
        /\ last' = [op |-> op, err |-> IF ok THEN "nil" ELSE "ErrSubstrate",
                    ret |-> IF ok THEN stamped ELSE <<>>]

\* DB.Append(event).  now is what time.Now() returns when the event has no
\* timestamp, e the entropy the ID source draws, order the order in which
\* the range visits the tags, fault the substrate call that fails.
DBAppend(event, now, e, order, fault) ==
    IF closed
    THEN /\ last' = [op |-> "Append", err |-> "ErrClosed", ret |-> <<>>]
         /\ UNCHANGED <<kv, ulids, closed, issued, clock>>
    ELSE IF validate(event) # "nil"
    THEN /\ last' = [op |-> "Append", err |-> validate(event), ret |-> <<>>]
         /\ UNCHANGED <<kv, ulids, closed, issued, clock>>
    ELSE /\ e \in NewEntropies(ulids, StampTime(event, now), IssuedIDs)
         /\ clock' = IF event.Timestamp = ZeroTime THEN now ELSE clock
         /\ ulids' = NewSource(StampTime(event, now), e)
         /\ Commit("Append", <<Stamp(event, now, e)>>, <<order>>, fault)
         /\ UNCHANGED closed

RECURSIVE StampBatch(_, _, _)
\* the events of a batch stamped with the entropies es, in order
StampBatch(events, now, es) ==
    IF es = <<>> THEN <<>>
    ELSE <<Stamp(Head(events), now, Head(es))>>
         \o StampBatch(Tail(events), now, Tail(es))

RECURSIVE BatchDraws(_, _, _, _)
\* the sequences of n entropies the ID source may draw for the timestamps ts
BatchDraws(src, used, ts, n) ==
    IF n = 0 THEN {<<>>}
    ELSE UNION {
           { <<e>> \o rest :
               rest \in BatchDraws(NewSource(Head(ts), e),
                                   used \cup {NewID(Head(ts), e)}, Tail(ts), n - 1) }
           : e \in NewEntropies(src, Head(ts), used) }

\* only the first event of the batch is validated
BatchInvalidFirstOnly(events) ==
    IF validate(events[1]) # "nil" THEN "ErrEmptyType" ELSE "nil"

\* the loop of AppendBatch over Event.validate
BatchInvalid(events) ==
    IF \E i \in 1..Len(events) : validate(events[i]) # "nil"
    THEN "ErrEmptyType" ELSE "nil"

\* DB.AppendBatch(events).  now is what time.Now() returns, read once
\* before the events are validated; es are the entropies drawn inside the
\* transaction, one per event the loop reaches, orders the orders in which
\* the ranges visit their tags; fault is the substrate call that fails: 0
\* none, k the k-th txn.Set of the batch, one more than the number of writes
\* the commit.
DBAppendBatch(events, now, es, orders, fault) ==
    IF closed
    THEN /\ last' = [op |-> "AppendBatch", err |-> "ErrClosed",
                     ret |-> <<>>]
         /\ UNCHANGED <<kv, ulids, closed, issued, clock>>
    ELSE IF Len(events) = 0
    THEN /\ last' = [op |-> "AppendBatch", err |-> "nil",
                     ret |-> <<>>]
         /\ UNCHANGED <<kv, ulids, closed, issued, clock>>
    ELSE IF BatchInvalid(events) # "nil"
    THEN /\ last' = [op |-> "AppendBatch", err |-> BatchInvalid(events), ret |-> <<>>]
         /\ clock' = now
         /\ UNCHANGED <<kv, ulids, closed, issued>>
    ELSE LET stamped == StampBatch(events, now, es)
             lastEv == stamped[Len(stamped)]
             writes == SumWrites(stamped)
             fnErr == fault \in 1..writes
         IN  /\ Len(es) \in 1..Len(events)
             /\ Len(orders) = Len(es)
             /\ es \in BatchDraws(ulids, IssuedIDs,
                                  [i \in 1..Len(events) |-> StampTime(events[i], now)],
                                  Len(es))
             \* the loop draws an identifier for every event up to the one
             \* whose write fails
             /\ IF fnErr
                THEN fault > writes - NumWrites(lastEv)
                ELSE Len(es) = Len(events) /\ fault \in {0, writes + 1}
             /\ clock' = now
             /\ ulids' = NewSource(lastEv.Timestamp, lastEv.ID.ent)
             /\ Commit("AppendBatch", stamped, orders, fault)
             /\ UNCHANGED closed

\* the lookup of DB.Get(id) in a store
Get(store, id) ==
    IF ~HasKey(store, encodeEventKey(id)) THEN [err |-> "ErrNotFound"]
    ELSE LET u == Unmarshal(ValueOf(store, encodeEventKey(id)))
         IN  IF ~u.ok THEN [err |-> "ErrCodec"]
             ELSE [err |-> "nil", ret |-> u.event]

\* DB.Get(id)
DBGet(id) ==
    /\ last' =
         IF closed THEN [op |-> "Get", arg |-> id, err |-> "ErrClosed"]
         ELSE [op |-> "Get", arg |-> id] @@ Get(kv, id)
    /\ UNCHANGED <<kv, ulids, closed, issued, clock>>

(***************************************************************************)
(* Deletion.                                                               *)
(***************************************************************************)
RECURSIVE findExpiredFrom(_, _, _)
findExpiredFrom(store, keys, before) ==
    IF keys = <<>> THEN <<>>
    ELSE LET d == decodeEventKey(Head(keys))
         IN  IF ~d.ok THEN findExpiredFrom(store, Tail(keys), before)
             ELSE IF ulidTime(d.id) < before
             THEN LET u == Unmarshal(ValueOf(store, Head(keys)))
                  IN  IF ~u.ok THEN findExpiredFrom(store, Tail(keys), before)
                      ELSE <<[id |-> d.id, event |-> u.event]>>
                           \o findExpiredFrom(store, Tail(keys), before)
             ELSE <<>>

\* DB.findExpiredEvents(txn, before): the primary records in key order up to
\* the first identifier whose time is not before the cutoff
findExpiredEvents(store, before) ==
    findExpiredFrom(store, ScanPrefix(store, eventKeyPrefix, FALSE), before)

\* the txn.Delete calls of DB.deleteEventAndIndices(txn, entry), the tag
\* indices in the order in which the range visits entry.event.Tags
EntryDeletes(entry, order) ==
    <<[del |-> TRUE, key |-> encodeEventKey(entry.id)],
      [del |-> TRUE, key |-> encodeTypeIndexKey(entry.event.Type, entry.id)]>>
    \o [i \in 1..Len(order) |->
          [del |-> TRUE,
           key |-> encodeTagIndexKey(order[i], entry.event.Tags[order[i]],
                                     entry.id)]]

\* the orders of the ranges over the tags of the entries
DeleteOrders(toDelete) ==
    RangeOrders([i \in 1..Len(toDelete) |-> toDelete[i].event.Tags])

RECURSIVE deleteLoop(_, _, _, _)
\* the loop of DB.deleteBefore over toDelete.  done counts the txn.Delete
\* calls made so far; the calls from number failFrom on fail (0: none), as
\* they do once the transaction is full.  An entry whose delete fails is
\* skipped: the deletes it buffered before the failure stay in the
\* transaction and the entry is not counted.
deleteLoop(toDelete, orders, done, failFrom) ==
    IF toDelete = <<>> THEN [ws |-> <<>>, deleted |-> 0]
    ELSE LET ds == EntryDeletes(Head(toDelete), Head(orders))
             fails == failFrom # 0 /\ failFrom <= done + Len(ds)
             made == IF ~fails THEN Len(ds)
                     ELSE IF failFrom <= done THEN 1 ELSE failFrom - done
             kept == IF fails THEN SubSeq(ds, 1, made - 1) ELSE ds
             rest == deleteLoop(Tail(toDelete), Tail(orders), done + made, failFrom)
         IN  [ws |-> kept \o rest.ws,
              deleted |-> (IF fails THEN 0 ELSE 1) + rest.deleted]

RECURSIVE NumDeletes(_)
\* the number of txn.Delete calls a pass over toDelete makes when none fails
NumDeletes(toDelete) ==
    IF toDelete = <<>> THEN 0
    ELSE NumWrites(Head(toDelete).event) + NumDeletes(Tail(toDelete))

RECURSIVE itemsFrom(_, _)
\* the keys of the items up to the first whose identifier is not before
\* the cutoff, that one included
itemsFrom(keys, before) ==
    IF keys = <<>> THEN {}
    ELSE LET d == decodeEventKey(Head(keys))
         IN  IF d.ok /\ ulidTime(d.id) >= before THEN {Head(keys)}
             ELSE {Head(keys)} \cup itemsFrom(Tail(keys), before)

\* the keys that the iterator of DB.findExpiredEvents hands out by it.Item(),
\* which badger records as the reads of the transaction: the primary keys
\* up to the one at which the loop stops, that one included
itemsRead(store, before) ==
    itemsFrom(ScanPrefix(store, eventKeyPrefix, FALSE), before)

\* a transaction of DB.deleteBefore(before) in flight: the store as it was
\* when db.badger.Update began the transaction, which is what its function
\* reads, and dirty, which becomes true when a transaction that commits
\* after the beginning of this one writes a key this one reads
NewTxn(store, before) == [snap |-> store, before |-> before, dirty |-> FALSE]

\* no transaction
NoTxn == NewTxn(<<>>, 0)

\* what the function of DB.deleteBefore(before) does on the store it reads:
\* the deletes it buffers and the count of its loop
deleteTxn(store, before, orders, failFrom) ==
    deleteLoop(findExpiredEvents(store, before), orders, 0, failFrom)

\* the keys that the writes of a transaction name
Written(ws) == {ws[i].key : i \in 1..Len(ws)}

\* txn.Commit() of a transaction with the buffered writes ws on the
\* substrate in the state given: nil for a transaction that buffered no
\* write, ErrConflict for one that read a key written since it began, which
\* badger finds out before it hands the writes on, and badger's error on a
\* closed substrate
commitErr(ws, dirty, substrate) ==
    IF ws = <<>> THEN "nil"
    ELSE IF dirty THEN "ErrConflict"
    ELSE IF substrate = "closed" THEN "ErrSubstrate"
    ELSE "nil"

\* the writes that the commit puts into the store
committed(ws, dirty, substrate) ==
    IF commitErr(ws, dirty, substrate) = "nil" THEN ws ELSE <<>>

\* the transaction reads one of the keys
Reads(txn, keys) == itemsRead(txn.snap, txn.before) \cap keys # {}

\* the calls after a commit that wrote the keys: their transactions in
\* flight that read one of them are dirty
markCalls(cs, keys) ==
    [c \in DOMAIN cs |->
        IF "txn" \in DOMAIN cs[c] /\ Reads(cs[c].txn, keys)
        THEN [cs[c] EXCEPT !.txn.dirty = TRUE] ELSE cs[c]]

\* the retention goroutines whose transaction in flight reads one of the
\* keys, and the goroutines after a commit that made those dirty
Readers(ts, keys) == {t \in DOMAIN ts : Reads(ts[t].txn, keys)}

marked(ts, readers) ==
    [t \in DOMAIN ts |->
        IF t \in readers THEN [ts[t] EXCEPT !.txn.dirty = TRUE] ELSE ts[t]]

markTasks(ts, keys) == marked(ts, Readers(ts, keys))

\* DB.deleteBefore(before) with no other transaction in flight: the store
\* after the call and the pair it returns; orders are the orders of the
\* ranges over the tags of the expired events.  A transaction that buffered
\* no delete has nothing to commit.
deleteBefore(store, before, orders, failFrom, commitOK) ==
    LET txn == deleteTxn(store, before, orders, failFrom)
        done == commitOK \/ txn.ws = <<>>
    IN  [store   |-> Update(store, txn.ws, FALSE, done),
         deleted |-> txn.deleted,
         err     |-> IF done THEN "nil" ELSE "ErrSubstrate"]

\* DB.DeleteBefore(before)
DBDeleteBefore(before, orders, failFrom, commitOK) ==
    IF closed
    THEN /\ last' = [op |-> "DeleteBefore", arg |-> before, err |-> "ErrClosed",
                     ret |-> 0, failFrom |-> 0]
         /\ UNCHANGED <<kv, ulids, closed, issued, clock>>
    ELSE LET r == deleteBefore(kv, before, orders, failFrom, commitOK)
         IN  /\ kv' = r.store
             /\ last' = [op |-> "DeleteBefore", arg |-> before, err |-> r.err,
                         ret |-> r.deleted, failFrom |-> failFrom]
             /\ UNCHANGED <<ulids, closed, issued, clock>>

(***************************************************************************)
(* Query.  A query is a record: Start and End are None or Some(t), Types a *)
(* sequence of strings, Tags a map, Limit a number, Descending a boolean.  *)
(***************************************************************************)
\* DB.matchesTimeRange(id, q)
matchesTimeRange(id, q) ==
    LET t == ulidTime(id)
    IN  /\ ~(q.Start.some /\ t < q.Start.v)
        /\ ~(q.End.some /\ t > q.End.v)

\* event.Tags[k] of a Go map: the zero value "" when k is absent
TagValue(tags, k) == IF k \in DOMAIN tags THEN tags[k] ELSE <<>>

\* DB.matchesFilters(event, q)
matchesFilters(event, q) ==
    /\ Len(q.Types) > 0 => \E i \in 1..Len(q.Types) : event.Type = q.Types[i]
    /\ \A k \in DOMAIN q.Tags : TagValue(event.Tags, k) = q.Tags[k]

RECURSIVE scanIndexFrom(_, _, _)
\* the loop of DB.scanIndex over the keys of the iterator
scanIndexFrom(keys, q, ids) ==
    IF keys = <<>> THEN ids
    ELSE LET d == decodeIndexKey(Head(keys))
         IN  IF ~d.ok \/ ~matchesTimeRange(d.id, q)
             THEN scanIndexFrom(Tail(keys), q, ids)
             ELSE IF q.Limit > 0 /\ Len(ids) + 1 >= q.Limit
             THEN Append(ids, d.id)
             ELSE scanIndexFrom(Tail(keys), q, Append(ids, d.id))

\* DB.scanIndex(txn, prefix, q)
scanIndex(store, prefix, q) ==
    scanIndexFrom(ScanPrefix(store, prefix, q.Descending), q, <<>>)

\* DB.scanTypeIndex(txn, eventType, q)
scanTypeIndex(store, eventType, q) ==
    scanIndex(store, encodeTypeIndexPrefix(eventType), q)

\* DB.scanTagIndex(txn, tagKey, tagValue, q)
scanTagIndex(store, tagKey, tagValue, q) ==
    scanIndex(store, encodeTagIndexPrefix(tagKey, tagValue), q)

\* DB.planQuery(txn, q); first is the tag that the iteration over the map
\* q.Tags yields first
planQuery(store, q, first) ==
    IF Len(q.Types) = 1
    THEN [ids |-> scanTypeIndex(store, q.Types[1], q), useIndex |-> TRUE]
    ELSE IF DOMAIN q.Tags # {}
    THEN [ids |-> scanTagIndex(store, first, q.Tags[first], q), useIndex |-> TRUE]
    ELSE [ids |-> <<>>, useIndex |-> FALSE]

RECURSIVE fetchEventsByIDs(_, _, _, _)
\* DB.fetchEventsByIDs(txn, ids, q); events are those collected so far
fetchEventsByIDs(store, ids, q, events) ==
    IF ids = <<>> THEN events
    ELSE LET g == Get(store, Head(ids))
         IN  IF g.err # "nil" \/ ~matchesFilters(g.ret, q)
             THEN fetchEventsByIDs(store, Tail(ids), q, events)
             ELSE IF q.Limit > 0 /\ Len(events) + 1 >= q.Limit
             THEN Append(events, g.ret)
             ELSE fetchEventsByIDs(store, Tail(ids), q, Append(events, g.ret))

RECURSIVE fullScanStopsAtMismatch(_, _, _, _)
\* a scan that stops at the first identifier outside the time range
fullScanStopsAtMismatch(store, keys, q, events) ==
    IF keys = <<>> THEN events
    ELSE LET d == decodeEventKey(Head(keys))
         IN  IF ~d.ok THEN fullScanStopsAtMismatch(store, Tail(keys), q, events)
             ELSE IF ~matchesTimeRange(d.id, q) THEN events
             ELSE LET u == Unmarshal(ValueOf(store, Head(keys)))
                  IN  IF ~u.ok \/ ~matchesFilters(u.event, q)
                      THEN fullScanStopsAtMismatch(store, Tail(keys), q, events)
                      ELSE IF q.Limit > 0 /\ Len(events) + 1 >= q.Limit
                      THEN Append(events, u.event)
                      ELSE fullScanStopsAtMismatch(store, Tail(keys), q,
                                                   Append(events, u.event))

RECURSIVE fullScanFrom(_, _, _, _)
\* the loop of DB.fullScan over the keys of the iterator
fullScanFrom(store, keys, q, events) ==
    IF keys = <<>> THEN events
    ELSE LET d == decodeEventKey(Head(keys))
         IN  IF ~d.ok THEN fullScanFrom(store, Tail(keys), q, events)
             ELSE IF ~matchesTimeRange(d.id, q)
             THEN IF \/ ~q.Descending /\ q.End.some /\ ulidTime(d.id) > q.End.v
                     \/ q.Descending /\ q.Start.some /\ ulidTime(d.id) < q.Start.v
                  THEN events
                  ELSE fullScanFrom(store, Tail(keys), q, events)
             ELSE LET u == Unmarshal(ValueOf(store, Head(keys)))
                  IN  IF ~u.ok \/ ~matchesFilters(u.event, q)
                      THEN fullScanFrom(store, Tail(keys), q, events)
                      ELSE IF q.Limit > 0 /\ Len(events) + 1 >= q.Limit
                      THEN Append(events, u.event)
                      ELSE fullScanFrom(store, Tail(keys), q,
                                        Append(events, u.event))

\* DB.fullScan(txn, q)
fullScan(store, q) ==
    fullScanFrom(store, ScanPrefix(store, eventKeyPrefix, q.Descending), q, <<>>)

\* the events DB.Query(q) returns from a store
Query(store, q, first) ==
    LET plan == planQuery(store, q, first)
    IN  IF plan.useIndex THEN fetchEventsByIDs(store, plan.ids, q, <<>>)
        ELSE fullScan(store, q)

\* the tags the iteration over q.Tags may yield first
Firsts(q) == IF DOMAIN q.Tags = {} THEN {<<>>} ELSE DOMAIN q.Tags

\* DB.Query(q)
DBQuery(q, first) ==
    /\ first \in Firsts(q)
    /\ last' =
         IF closed THEN [op |-> "Query", arg |-> q, err |-> "ErrClosed", ret |-> <<>>]
         ELSE [op |-> "Query", arg |-> q, err |-> "nil", ret |-> Query(kv, q, first)]
    /\ UNCHANGED <<kv, ulids, closed, issued, clock>>

\* a count that counts the keys of every keyspace
CountAllKeys(store) == Len(store)

\* the loop of DB.Count(): one for each key under the prefix of the primary
\* records; neither the key nor the value is decoded
Count(store) == Len(ScanPrefix(store, eventKeyPrefix, FALSE))

\* DB.Count()
DBCount ==
    /\ last' = IF closed THEN [op |-> "Count", err |-> "ErrClosed", ret |-> 0]
               ELSE [op |-> "Count", err |-> "nil", ret |-> Count(kv)]
    /\ UNCHANGED <<kv, ulids, closed, issued, clock>>

(***************************************************************************)
(* Aggregation.  A context is the number of its ctx.Err() calls that still *)
(* return nil, or Never when it is not cancelled.  The scans of a query's  *)
(* plan are those of Query: DB.planQuery with the arguments of             *)
(* src/query.go.                                                           *)
(***************************************************************************)
Never == -1

\* the context after a ctx.Err() that returned nil
Passed(ctx) == IF ctx = Never THEN Never ELSE ctx - 1

\* ctx.Err()
ctxErr(ctx) == IF ctx = 0 THEN "Canceled" ELSE "nil"

\* math.MaxFloat64
MaxFloat64 == [m |-> Pow2(MantissaBits) - 1, e |-> MaxExponent]

FNeg(x) == [m |-> -x.m, e |-> x.e]

Percentiles == {"P50", "P95", "P99"}

\* newAggregator(field, needsPercentiles)
newAggregator(field, needsPercentiles) ==
    [field |-> field, needsPercentiles |-> needsPercentiles, count |-> 0,
     sum |-> FZero, min |-> MaxFloat64, max |-> FNeg(MaxFloat64), values |-> <<>>]

\* extractNumericValue(event, field)
extractNumericValue(event, field) ==
    IF field = <<>> THEN [v |-> FZero, ok |-> TRUE]
    ELSE IF field \notin DOMAIN DataOf(event) THEN [v |-> FZero, ok |-> FALSE]
    ELSE LET val == event.Data[field]
         IN  IF val.kind = "float64" THEN [v |-> val.f, ok |-> TRUE]
             ELSE IF val.kind = "int" THEN [v |-> FromInt(val.n), ok |-> TRUE]
             ELSE [v |-> FZero, ok |-> FALSE]

\* an aggregator that buffers values without a cap
addUncapped(a, event) ==
    LET x == extractNumericValue(event, a.field)
    IN  IF ~x.ok /\ a.field # <<>> THEN [a |-> a, err |-> "nil"]
        ELSE IF a.field = <<>>
        THEN [a |-> [a EXCEPT !.count = @ + 1], err |-> "nil"]
        ELSE [a |-> [a EXCEPT !.count = @ + 1,
                              !.sum = FAdd(@, x.v),
                              !.min = IF FLess(x.v, @) THEN x.v ELSE @,
                              !.max = IF FLess(@, x.v) THEN x.v ELSE @,
                              !.values = IF a.needsPercentiles
                                         THEN Append(@, x.v) ELSE @],
              err |-> "nil"]

\* aggregator.add(event): the aggregator after the call and its error
add(a, event) ==
    LET x == extractNumericValue(event, a.field)
    IN  IF ~x.ok /\ a.field # <<>> THEN [a |-> a, err |-> "nil"]
        ELSE IF a.field = <<>>
        THEN [a |-> [a EXCEPT !.count = @ + 1], err |-> "nil"]
        ELSE LET s == [a EXCEPT !.count = @ + 1,
                                !.sum = FAdd(@, x.v),
                                !.min = IF FLess(x.v, @) THEN x.v ELSE @,
                                !.max = IF FLess(@, x.v) THEN x.v ELSE @]
             IN  IF ~a.needsPercentiles THEN [a |-> s, err |-> "nil"]
                 ELSE IF Len(a.values) >= maxPercentileValues
                 THEN [a |-> s, err |-> "ErrTooManyValues"]
                 ELSE [a |-> [s EXCEPT !.values = Append(@, x.v)], err |-> "nil"]

RECURSIVE Insert(_, _)
\* x put into the ascending sequence s
Insert(s, x) ==
    IF s = <<>> THEN <<x>>
    ELSE IF FLess(x, Head(s)) THEN <<x>> \o s
    ELSE <<Head(s)>> \o Insert(Tail(s), x)

RECURSIVE SortFloat64s(_)
\* sort.Float64s(values)
SortFloat64s(values) ==
    IF values = <<>> THEN <<>>
    ELSE Insert(SortFloat64s(Tail(values)), Head(values))

\* a percentile that takes the value at the lower rank
percentileLower(sorted, p) ==
    IF Len(sorted) = 0 THEN FZero
    ELSE sorted[Trunc(FMul(p, FromInt(Len(sorted) - 1))) + 1]

\* percentile(sorted, p): p is a float; each product and sum is rounded
percentile(sorted, p) ==
    IF Len(sorted) = 0 THEN FZero
    ELSE IF Len(sorted) = 1 THEN sorted[1]
    ELSE LET rank  == FMul(p, FromInt(Len(sorted) - 1))
             lower == Trunc(rank)
             upper == lower + 1
         IN  IF upper >= Len(sorted) THEN sorted[Len(sorted)]
             ELSE LET weight == FSub(rank, FromInt(lower))
                  IN  FAdd(FMul(sorted[lower + 1], FSub(FOne, weight)),
                           FMul(sorted[upper + 1], weight))

\* the constants 0.50, 0.95 and 0.99 as floats
Quantile(name) ==
    IF name = "P50" THEN Ratio(50, 100, 0)
    ELSE IF name = "P95" THEN Ratio(95, 100, 0)
    ELSE Ratio(99, 100, 0)

\* a result that reports the aggregator's fields as they are
resultRaw(a) ==
    [Count |-> a.count, Sum |-> a.sum, Avg |-> FZero, Min |-> a.min, Max |-> a.max,
     P50 |-> FZero, P95 |-> FZero, P99 |-> FZero]

\* aggregator.result()
result(a) ==
    IF a.count > 0 /\ a.field # <<>>
    THEN LET sorted == SortFloat64s(a.values)
             pct(name) == IF a.needsPercentiles /\ Len(a.values) > 0
                          THEN percentile(sorted, Quantile(name)) ELSE FZero
         IN  [Count |-> a.count, Sum |-> a.sum,
              Avg |-> FDiv(a.sum, FromInt(a.count)),
              Min |-> a.min, Max |-> a.max,
              P50 |-> pct("P50"), P95 |-> pct("P95"), P99 |-> pct("P99")]
    ELSE [Count |-> a.count, Sum |-> FZero, Avg |-> FZero, Min |-> FZero,
          Max |-> FZero, P50 |-> FZero, P95 |-> FZero, P99 |-> FZero]

RECURSIVE aggregateByIDs(_, _, _, _, _)
\* DB.aggregateByIDs(ctx, txn, ids, q, agg)
aggregateByIDs(store, ids, q, agg, ctx) ==
    IF ids = <<>> \/ ctx = 0 THEN [agg |-> agg, err |-> ctxErr(ctx)]
    ELSE LET g == Get(store, Head(ids))
         IN  IF g.err # "nil" \/ ~matchesFilters(g.ret, q)
             THEN aggregateByIDs(store, Tail(ids), q, agg, Passed(ctx))
             ELSE LET r == add(agg, g.ret)
                  IN  IF r.err # "nil" THEN [agg |-> r.a, err |-> r.err]
                      ELSE aggregateByIDs(store, Tail(ids), q, r.a, Passed(ctx))

RECURSIVE aggregateFullScanFrom(_, _, _, _, _)
\* the loop of DB.aggregateFullScan over the keys of the iterator
aggregateFullScanFrom(store, keys, q, agg, ctx) ==
    IF keys = <<>> \/ ctx = 0 THEN [agg |-> agg, err |-> ctxErr(ctx)]
    ELSE LET d == decodeEventKey(Head(keys))
         IN  IF ~d.ok
             THEN aggregateFullScanFrom(store, Tail(keys), q, agg, Passed(ctx))
             ELSE IF ~matchesTimeRange(d.id, q)
             THEN IF \/ ~q.Descending /\ q.End.some /\ ulidTime(d.id) > q.End.v
                     \/ q.Descending /\ q.Start.some /\ ulidTime(d.id) < q.Start.v
                  THEN [agg |-> agg, err |-> ctxErr(Passed(ctx))]
                  ELSE aggregateFullScanFrom(store, Tail(keys), q, agg, Passed(ctx))
             ELSE LET u == Unmarshal(ValueOf(store, Head(keys)))
                  IN  IF ~u.ok \/ ~matchesFilters(u.event, q)
                      THEN aggregateFullScanFrom(store, Tail(keys), q, agg, Passed(ctx))
                      ELSE LET r == add(agg, u.event)
                           IN  IF r.err # "nil" THEN [agg |-> r.a, err |-> r.err]
                               ELSE aggregateFullScanFrom(store, Tail(keys), q, r.a,
                                                          Passed(ctx))

\* DB.aggregateFullScan(ctx, txn, q, agg)
aggregateFullScan(store, q, agg, ctx) ==
    aggregateFullScanFrom(store, ScanPrefix(store, eventKeyPrefix, q.Descending),
                          q, agg, ctx)

\* DB.Aggregate(ctx, q, field, aggs) on an open handle; first is the tag
\* that the iteration over q.Tags yields first
Aggregate(store, q, field, aggs, first, ctx) ==
    IF ctx = 0 THEN [err |-> "Canceled"]
    ELSE LET agg  == newAggregator(field, aggs \cap Percentiles # {})
             plan == planQuery(store, q, first)
             r    == IF plan.useIndex
                     THEN aggregateByIDs(store, plan.ids, q, agg, Passed(ctx))
                     ELSE aggregateFullScan(store, q, agg, Passed(ctx))
         IN  IF r.err # "nil" THEN [err |-> r.err]
             ELSE [err |-> "nil", ret |-> result(r.agg)]

\* DB.Aggregate(ctx, q, field, aggs)
DBAggregate(q, field, aggs, first, ctx) ==
    /\ first \in Firsts(q)
    /\ last' =
         IF closed
         THEN [op |-> "Aggregate", q |-> q, field |-> field, aggs |-> aggs,
               first |-> first, ctx |-> ctx, err |-> "ErrClosed"]
         ELSE [op |-> "Aggregate", q |-> q, field |-> field, aggs |-> aggs,
               first |-> first, ctx |-> ctx]
              @@ Aggregate(kv, q, field, aggs, first, ctx)
    /\ UNCHANGED <<kv, ulids, closed, issued, clock>>

(***************************************************************************)
(* Export.  The caller's writer accepts every write; what it has received  *)
(* is a sequence of chunks: one JSON document, or the rows of the CSV.     *)
(***************************************************************************)
\* db.Query(ctx, q) as Export calls it: the query of src/query.go under a
\* context, which it consults once
QueryCtx(store, q, first, ctx) ==
    IF ctx = 0 THEN [err |-> "Canceled", events |-> <<>>, ctx |-> ctx]
    ELSE [err |-> "nil", events |-> Query(store, q, first), ctx |-> Passed(ctx)]

\* encoder.Encode(events): a nil slice is written as null
EncodeEvents(events) ==
    IF events = <<>> THEN [null |-> TRUE]
    ELSE [array |-> [i \in 1..Len(events) |-> Marshal(events[i])]]

\* exportJSON(ctx, w, events): the error and what w has received
exportJSON(ctx, events) ==
    IF ctx = 0 THEN [err |-> "Canceled", written |-> <<>>]
    ELSE [err |-> "nil", written |-> <<EncodeEvents(events)>>]

\* collectKeys(events, getter) for the tags
collectKeys(events) ==
    SortNames(UNION {DOMAIN events[i].Tags : i \in 1..Len(events)})

\* collectDataKeys(events)
collectDataKeys(events) ==
    SortNames(UNION {DOMAIN DataOf(events[i]) : i \in 1..Len(events)})

\* buildCSVHeader(tagKeys, dataKeys)
buildCSVHeader(tagKeys, dataKeys) ==
    <<[h |-> "id"], [h |-> "timestamp"], [h |-> "type"]>>
    \o [i \in 1..Len(tagKeys) |-> [h |-> "tag_", k |-> tagKeys[i]]]
    \o [i \in 1..Len(dataKeys) |-> [h |-> "data_", k |-> dataKeys[i]]]

RECURSIVE Digits(_)
\* the decimal digits of n >= 0
Digits(n) == IF n < 10 THEN <<48 + n>> ELSE Digits(n \div 10) \o <<48 + (n % 10)>>

\* %d of an integer
IntText(n) == IF n < 0 THEN <<45>> \o Digits(-n) ELSE Digits(n)

RECURSIVE ZeroPad(_, _)
ZeroPad(ds, k) == IF Len(ds) >= k THEN ds ELSE ZeroPad(<<48>> \o ds, k)

\* Numbers beyond the integers of the model: a natural number is the
\* sequence of its decimal digits, the first one not zero; the empty
\* sequence is zero.
Zeros(n) == [i \in 1..n |-> 0]

\* the digits without zeros at their front
stripFront(ds) ==
    IF \A i \in 1..Len(ds) : ds[i] = 0 THEN <<>>
    ELSE SubSeq(ds, CHOOSE i \in 1..Len(ds) :
                        ds[i] # 0 /\ \A t \in 1..(i - 1) : ds[t] = 0,
                Len(ds))

\* the digits ds * 10^exp of a number that is not zero, without zeros at
\* their end
stripZeros(d) ==
    LET k == CHOOSE i \in 1..Len(d.ds) :
                 d.ds[i] # 0 /\ \A t \in (i + 1)..Len(d.ds) : d.ds[t] = 0
    IN  [ds |-> SubSeq(d.ds, 1, k), exp |-> d.exp + Len(d.ds) - k]

\* 2 * ds: a digit takes a carry of one when the digit below it is 5 or more
bigDouble(ds) ==
    (IF ds # <<>> /\ ds[1] >= 5 THEN <<1>> ELSE <<>>)
    \o [i \in 1..Len(ds) |->
          ((2 * ds[i]) % 10) + (IF i < Len(ds) /\ ds[i + 1] >= 5 THEN 1 ELSE 0)]

\* 5 * ds, which is half of 10 * ds: a digit takes ten when the digit above
\* it is odd
bigFive(ds) ==
    LET t == ds \o <<0>>
    IN  stripFront([i \in 1..Len(t) |->
                       (t[i] + (IF i > 1 /\ t[i - 1] % 2 = 1 THEN 10 ELSE 0)) \div 2])

RECURSIVE bigScale(_, _, _)
\* ds * b^n for b = 2 and b = 5
bigScale(ds, b, n) ==
    IF n = 0 THEN ds
    ELSE IF n >= 4
    THEN LET next == IF b = 2 THEN bigDouble(bigDouble(bigDouble(bigDouble(ds))))
                     ELSE bigFive(bigFive(bigFive(bigFive(ds))))
         IN  IF next = <<>> THEN <<>> ELSE bigScale(next, b, n - 4)
    ELSE bigScale(IF b = 2 THEN bigDouble(ds) ELSE bigFive(ds), b, n - 1)

\* a <= b
bigLeq(a, b) ==
    \/ Len(a) < Len(b)
    \/ /\ Len(a) = Len(b)
       /\ \/ a = b
          \/ \E i \in 1..Len(a) : a[i] < b[i] /\ \A t \in 1..(i - 1) : a[t] = b[t]

\* a + b for b <= a: a digit takes a carry when the digits below it add up
\* to ten or more after a run of nines
bigPlus(a, b) ==
    LET y == Zeros(Len(a) - Len(b)) \o b
        carry(i) == \E k \in (i + 1)..Len(a) :
                       /\ a[k] + y[k] >= 10
                       /\ \A t \in (i + 1)..(k - 1) : a[t] + y[t] = 9
    IN  (IF carry(0) THEN <<1>> ELSE <<>>)
        \o [i \in 1..Len(a) |-> (a[i] + y[i] + (IF carry(i) THEN 1 ELSE 0)) % 10]

\* a - b for b <= a: a digit lends one when the digits below it fall short
\* after a run of equal digits
bigMinus(a, b) ==
    LET y == Zeros(Len(a) - Len(b)) \o b
        borrow(i) == \E k \in (i + 1)..Len(a) :
                        /\ a[k] < y[k]
                        /\ \A t \in (i + 1)..(k - 1) : a[t] = y[t]
    IN  stripFront([i \in 1..Len(a) |->
                       (10 + a[i] - y[i] - (IF borrow(i) THEN 1 ELSE 0)) % 10])

\* the digits of the characters of a number
digitsOf(chars) == [i \in 1..Len(chars) |-> chars[i] - 48]

\* the decimal digits of m * 2^e for m > 0: the number is ds * 10^exp
exactDigits(m, e) ==
    [ds  |-> bigScale(digitsOf(Digits(m)), IF e >= 0 THEN 2 ELSE 5, Abs(e)),
     exp |-> Min(e, 0)]

\* n without its last j digits, and one more than that
truncated(n, j) == SubSeq(n, 1, Len(n) - j)
above(n, j) == IF j >= Len(n) THEN <<1>> ELSE bigPlus(SubSeq(n, 1, Len(n) - j), <<1>>)

\* n without its last j digits is not below low; one more is not above high
inDown(n, low, j) == j < Len(n) /\ bigLeq(low, SubSeq(n, 1, Len(n) - j) \o Zeros(j))
inUp(n, high, j) == bigLeq(above(n, j) \o Zeros(j), high)
inRange(n, low, high, j) == inDown(n, low, j) \/ inUp(n, high, j)

\* the last j digits of n are more than half of 10^j, or half of it with an
\* odd digit before them
nearer(rest, half, odd) ==
    \/ rest # half /\ bigLeq(half, rest)
    \/ rest = half /\ odd

roundsUp(n, j) ==
    nearer(SubSeq(n, Len(n) - j + 1, Len(n)), <<5>> \o Zeros(j - 1),
           j < Len(n) /\ n[Len(n) - j] % 2 = 1)

\* n cut after its digit Len(n) - j, to the number that is nearer to n
\* when both are between the bounds
cutAt(n, low, high, j) ==
    IF j = 0 THEN [ds |-> n, exp |-> 0]
    ELSE IF inDown(n, low, j) /\ (~inUp(n, high, j) \/ ~roundsUp(n, j))
    THEN [ds |-> truncated(n, j), exp |-> j]
    ELSE [ds |-> above(n, j), exp |-> j]

\* the number with the fewest digits from low to high, the nearest to n of
\* them, a tie to the even digit: n cut by the largest j that leaves a
\* number between the bounds
shortestBetween(n, low, high) ==
    cutAt(n, low, high,
          CHOOSE j \in 0..Len(n) :
              /\ j = 0 \/ inRange(n, low, high, j)
              /\ \A t \in (j + 1)..Len(n) : ~inRange(n, low, high, t))

\* the digits r counted in units of 10^u
shifted(r, u) == [ds |-> r.ds, exp |-> r.exp + u]

\* the shortest digits of n, counted in units of 10^u like the quarter q
\* of the distance between n and the next float64: the bounds are half a
\* distance away, the lower one a quarter for a power of two, and belong
\* to the float, whose 53-bit mantissa is even
roundUnits(n, q, u, power) ==
    shifted(shortestBetween(n, bigMinus(n, IF power THEN q ELSE bigDouble(q)),
                            bigPlus(n, bigDouble(q))),
            u)

\* the digits x of m * 2^e in units of 10^u and the quarter 2^s of the
\* distance to the next float64
roundFrom(x, m, s) ==
    stripZeros(roundUnits(x.ds \o Zeros(x.exp - Min(s, 0)),
                          bigScale(<<1>>, IF s < 0 THEN 5 ELSE 2, Abs(s)),
                          Min(s, 0), m = 1))

\* strconv's shortest digits of the float64 m * 2^e that read back as it
roundShortest(m, e) == roundFrom(exactDigits(m, e), m, BitLen(m) - 1 + e - 54)

\* the digits and the position dp of the decimal point: the number is
\* 0.d1d2... * 10^dp
pointed(x) == [d |-> x.ds, dp |-> Len(x.ds) + x.exp]

\* fifteen digits or fewer that give the float exactly are the shortest
digitsFrom(x, c) == IF Len(x.ds) <= 15 THEN pointed(x) ELSE pointed(roundShortest(c.m, c.e))

digitsOfCanon(c) == digitsFrom(stripZeros(exactDigits(c.m, c.e)), c)

\* strconv's shortest digits of a float f # 0 that read back as f
shortestDigits(f) == digitsOfCanon(Canon(Abs(f.m), f.e))

\* the characters of digits
digitChars(ds) == [i \in 1..Len(ds) |-> 48 + ds[i]]

\* strconv's %e of the digits: d.ddde±xx with at least minExp digits of
\* exponent
fmtE(digs, minExp) ==
    <<48 + digs.d[1]>>
    \o (IF Len(digs.d) > 1 THEN <<46>> \o digitChars(Tail(digs.d)) ELSE <<>>)
    \o <<101, IF digs.dp - 1 < 0 THEN 45 ELSE 43>>
    \o ZeroPad(Digits(Abs(digs.dp - 1)), minExp)

\* strconv's %f of the digits, with as many places as the digits need
fmtF(digs) ==
    (IF digs.dp <= 0 THEN <<48>>
     ELSE digitChars(SubSeq(digs.d, 1, Min(digs.dp, Len(digs.d)))
                     \o Zeros(digs.dp - Len(digs.d))))
    \o (IF Len(digs.d) <= digs.dp THEN <<>>
        ELSE <<46>>
             \o digitChars(Zeros(-digs.dp)
                           \o SubSeq(digs.d, (IF digs.dp > 0 THEN digs.dp ELSE 0) + 1,
                                     Len(digs.d))))

\* the exponent form when the exponent of the first digit is below low or
\* at least high, else the decimal form
fmtG(digs, low, high, minExp) ==
    IF digs.dp - 1 < low \/ digs.dp - 1 >= high THEN fmtE(digs, minExp) ELSE fmtF(digs)

\* the text of a float
floatChars(f, low, high, minExp) ==
    IF f.m = 0 THEN <<48>>
    ELSE (IF f.m < 0 THEN <<45>> ELSE <<>>) \o fmtG(shortestDigits(f), low, high, minExp)

\* fmt.Sprintf("%v", f) of a float64: %g with the shortest digits, the
\* exponent form below 10^-4 and from 10^6 on
FloatText(f) == [s |-> floatChars(f, -4, 6, 2)]

\* json.Marshal of a number: an int as %d, a float64 in the exponent form
\* below 10^-6 and from 10^21 on, with e-09 written e-9
NumberJSON(v) ==
    IF v.kind = "int" THEN [s |-> IntText(v.n)]
    ELSE [s |-> floatChars(v.f, -6, 21, 1)]

RECURSIVE Joined(_)
\* the texts with commas between them
Joined(texts) ==
    IF texts = <<>> THEN <<>>
    ELSE IF Len(texts) = 1 THEN texts[1]
    ELSE texts[1] \o <<44>> \o Joined(Tail(texts))

\* json.Marshal of a slice of numbers; another slice is kept as its JSON
\* value
SliceJSON(v) ==
    IF \A i \in 1..Len(v.items) : v.items[i].kind \in {"int", "float64"}
    THEN [s |-> <<91>> \o Joined([i \in 1..Len(v.items) |->
                                      NumberJSON(v.items[i]).s]) \o <<93>>]
    ELSE [json |-> jsonValue(v)]

\* formatDataValue(v) of event.Data[k]: "" for nil and for an absent key, a
\* string as it is, a bool as true or false, a number in the form of %v,
\* anything else as its JSON; a cell that holds a text is s
formatDataValue(data, k) ==
    IF k \notin DOMAIN data \/ data[k].kind = "nil" THEN [s |-> <<>>]
    ELSE IF data[k].kind = "string" THEN [s |-> data[k].s]
    ELSE IF data[k].kind = "bool"
    THEN [s |-> IF data[k].b THEN <<116, 114, 117, 101>>
                ELSE <<102, 97, 108, 115, 101>>]
    ELSE IF data[k].kind = "int" THEN [s |-> IntText(data[k].n)]
    ELSE IF data[k].kind = "float64" THEN FloatText(data[k].f)
    ELSE SliceJSON(data[k])

\* buildCSVRow(event, tagKeys, dataKeys)
buildCSVRow(event, tagKeys, dataKeys) ==
    <<[s |-> ULIDString(event.ID)], [rfc3339 |-> event.Timestamp],
      [s |-> event.Type]>>
    \o [i \in 1..Len(tagKeys) |-> [s |-> TagValue(event.Tags, tagKeys[i])]]
    \o [i \in 1..Len(dataKeys) |-> formatDataValue(DataOf(event), dataKeys[i])]

RECURSIVE csvRows(_, _, _, _, _, _)
\* the loop of exportCSV from the event of index i (from 0) with buf in the
\* csv.Writer: the context is consulted every rowsPerCheck rows
csvRows(events, i, ctx, tagKeys, dataKeys, buf) ==
    IF i >= Len(events) THEN [err |-> "nil", buf |-> buf]
    ELSE IF i % rowsPerCheck = 0 /\ ctx = 0 THEN [err |-> "Canceled", buf |-> buf]
    ELSE csvRows(events, i + 1,
                 IF i % rowsPerCheck = 0 THEN Passed(ctx) ELSE ctx,
                 tagKeys, dataKeys,
                 Append(buf, buildCSVRow(events[i + 1], tagKeys, dataKeys)))

\* exportCSV(ctx, w, events): the error and what w has received; the
\* deferred writer.Flush() hands w what the csv.Writer holds on every
\* return after the header was written
exportCSV(ctx, events) ==
    IF Len(events) = 0 THEN [err |-> "nil", written |-> <<>>]
    ELSE IF ctx = 0 THEN [err |-> "Canceled", written |-> <<>>]
    ELSE LET tagKeys  == collectKeys(events)
             dataKeys == collectDataKeys(events)
             r == csvRows(events, 0, Passed(ctx), tagKeys, dataKeys,
                          <<buildCSVHeader(tagKeys, dataKeys)>>)
         IN  [err |-> r.err, written |-> r.buf]

\* DB.Export(ctx, w, q, format) on an open handle
Export(store, q, format, first, ctx) ==
    IF ctx = 0 THEN [err |-> "Canceled", written |-> <<>>]
    ELSE LET r == QueryCtx(store, q, first, Passed(ctx))
         IN  IF r.err # "nil" THEN [err |-> r.err, written |-> <<>>]
             ELSE IF format = "CSV" THEN exportCSV(r.ctx, r.events)
             ELSE exportJSON(r.ctx, r.events)

\* DB.Export(ctx, w, q, format)
DBExport(q, format, first, ctx) ==
    /\ first \in Firsts(q)
    /\ last' =
         IF closed
         THEN [op |-> "Export", q |-> q, format |-> format, first |-> first,
               ctx |-> ctx, err |-> "ErrClosed", written |-> <<>>]
         ELSE [op |-> "Export", q |-> q, format |-> format, first |-> first,
               ctx |-> ctx]
              @@ Export(kv, q, format, first, ctx)
    /\ UNCHANGED <<kv, ulids, closed, issued, clock>>

(***************************************************************************)
(* The calls of a client, one at a time.                                   *)
(***************************************************************************)
\* what time.Now() may return: an instant that is not before the last one
TimeNow == {t \in Instants : t >= clock}

\* the readings that stamp an event: the identifiers hold MaxMs milliseconds
StampNow == {t \in TimeNow : t <= MaxTick}

\* the faults of a transaction that makes n substrate calls
Faults(n) == 0..(n + 1)

\* the identifiers a caller asks for: those it was given and one it was not
AskedIDs == IssuedIDs \cup {ULID(MaxMs, MaxEntropy)}

\* the batches of at most MaxBatch of the given events
BatchesOf(events) == UNION {[1..n -> events] : n \in 0..MaxBatch}

\* the cutoffs of DeleteBefore
Cutoffs == Ticks \cup {MaxTick + 1}

\* Append of one of the events, while fewer than cap events were written;
\* with faulty, any substrate call of it may fail
ClientAppend(events, faulty, cap) ==
    \E event \in events :
        IF closed \/ validate(event) # "nil"
        THEN DBAppend(event, clock, 0, <<>>, 0)
        ELSE /\ Cardinality(issued) < cap
             /\ \E now \in IF event.Timestamp = ZeroTime THEN StampNow ELSE {clock} :
                  \E e \in NewEntropies(ulids, StampTime(event, now), IssuedIDs),
                     order \in TagOrders(event.Tags),
                     fault \in IF faulty THEN Faults(NumWrites(event)) ELSE {0} :
                     DBAppend(event, now, e, order, fault)

ClientAppendBatch(batches, faulty, cap) ==
    \E events \in batches :
        IF closed \/ Len(events) = 0
        THEN DBAppendBatch(events, clock, <<>>, <<>>, 0)
        ELSE IF BatchInvalid(events) # "nil"
        THEN \E now \in StampNow : DBAppendBatch(events, now, <<>>, <<>>, 0)
        ELSE /\ Cardinality(issued) + Len(events) <= cap
             /\ \E now \in StampNow, n \in 1..Len(events) :
                  \E es \in BatchDraws(ulids, IssuedIDs,
                               [i \in 1..Len(events) |-> StampTime(events[i], now)], n),
                     orders \in RangeOrders([i \in 1..n |-> events[i].Tags]),
                     fault \in IF faulty THEN Faults(SumWrites(events)) ELSE {0} :
                       DBAppendBatch(events, now, es, orders, fault)

ClientGet == \E id \in AskedIDs : DBGet(id)

ClientDeleteBefore(faulty) ==
    \E before \in Cutoffs :
        \E orders \in DeleteOrders(findExpiredEvents(kv, before)),
           failFrom \in IF faulty THEN 0..NumDeletes(findExpiredEvents(kv, before))
                        ELSE {0},
           commitOK \in IF faulty THEN BOOLEAN ELSE {TRUE} :
            DBDeleteBefore(before, orders, failFrom, commitOK)

ClientCount == DBCount

\* Aggregate of one of the queries over the field x or no field, with a
\* context that is cancelled before the call, during it or not at all
ClientAggregate(queries) ==
    \E q \in queries, field \in {<<>>, FieldX}, aggs \in AggregationSets,
       ctx \in {Never} \cup 0..MaxEvents :
        \E first \in Firsts(q) : DBAggregate(q, field, aggs, first, ctx)

\* Export of one of the queries in a format (an unknown format is written
\* as JSON), with a context that is cancelled before the call, at one of the
\* looks at it during the call, or not at all
ClientExport(queries) ==
    \E q \in queries, format \in {"JSON", "CSV", "other"},
       ctx \in {Never} \cup 0..(MaxEvents + 3) :
        \E first \in Firsts(q) : DBExport(q, format, first, ctx)

ClientQuery(queries) == \E q \in queries : \E first \in Firsts(q) : DBQuery(q, first)

(***************************************************************************)
(* Lifecycle.  The calls of the clients and the retention goroutines run   *)
(* concurrently, one step at a time.  A data-plane call reads db.closed    *)
(* under the read lock and releases the lock before its transaction; the   *)
(* read-locked section is one step, so db.mu records only its writer.      *)
(* Close and SetRetention hold the write lock from their first step to     *)
(* their return.                                                           *)
(***************************************************************************)
data == <<kv, ulids, closed, issued, clock>>

\* last after a step in which no call returned
NoReturn == [op |-> "none", err |-> "nil"]

\* the holder of a retention state's mutex that is its own goroutine
Goroutine == MaxClients + 1

\* what a data-plane call returns when it finds db.closed set
Refused(call) ==
    IF call.op \in {"Append", "AppendBatch"}
    THEN {[op |-> call.op, err |-> "ErrClosed", ret |-> <<>>]}
    ELSE IF call.op = "Get"
    THEN {[op |-> "Get", arg |-> call.arg, err |-> "ErrClosed"]}
    ELSE IF call.op = "Query"
    THEN {[op |-> "Query", arg |-> call.arg, err |-> "ErrClosed", ret |-> <<>>]}
    ELSE IF call.op = "Count"
    THEN {[op |-> "Count", err |-> "ErrClosed", ret |-> 0]}
    ELSE IF call.op = "DeleteBefore"
    THEN {[op |-> "DeleteBefore", arg |-> call.arg, err |-> "ErrClosed",
           ret |-> 0, failFrom |-> 0]}
    ELSE IF call.op = "Aggregate"
    THEN {[op |-> "Aggregate", q |-> call.arg.q, field |-> call.arg.field,
           aggs |-> call.arg.aggs, first |-> first, ctx |-> Never,
           err |-> "ErrClosed"] : first \in Firsts(call.arg.q)}
    ELSE {[op |-> "Export", q |-> call.arg.q, format |-> call.arg.format,
           first |-> first, ctx |-> Never, err |-> "ErrClosed",
           written |-> <<>>] : first \in Firsts(call.arg.q)}

\* db.badger.View of a reading call, with what the call does after it
Handler(call) ==
    \/ call.op = "Get" /\ DBGet(call.arg)
    \/ call.op = "Query" /\ ClientQuery({call.arg})
    \/ call.op = "Count" /\ DBCount
    \/ /\ call.op = "Aggregate"
       /\ \E first \in Firsts(call.arg.q) :
             DBAggregate(call.arg.q, call.arg.field, call.arg.aggs, first, Never)
    \/ /\ call.op = "Export"
       /\ \E first \in Firsts(call.arg.q) :
             DBExport(call.arg.q, call.arg.format, first, Never)

\* the writes that have passed the check of db.closed and not yet committed
PendingWrites ==
    Cardinality({c \in Clients : calls[c].op \in {"Append", "AppendBatch"}})

\* the identifiers that calls in progress have drawn
DrawnIDs ==
    UNION {{calls[c].stamped[i].ID : i \in 1..Len(calls[c].stamped)} :
             c \in {d \in Clients : calls[d].op \in {"Append", "AppendBatch"}}}

\* a call that returns before it reads the clock or the substrate: Append
\* of an event that is not valid, AppendBatch of no events
ReturnsAtOnce(call) ==
    \/ call.op = "Append" /\ validate(call.arg) # "nil"
    \/ call.op = "AppendBatch" /\ Len(call.arg) = 0

\* what that call returns
AtOnce(call) ==
    [op |-> call.op, ret |-> <<>>,
     err |-> IF call.op = "Append" THEN validate(call.arg) ELSE "nil"]

\* a call after its look at db.closed: Append reads the clock for an event
\* without timestamp and then draws the identifier, AppendBatch reads the
\* clock, Export calls Query, DeleteBefore begins its transaction, the
\* others go to their transaction
Entered(call) ==
    IF call.op = "Append"
    THEN [op |-> call.op, arg |-> call.arg, now |-> ZeroTime, stamped |-> <<>>,
          pc |-> IF call.arg.Timestamp = ZeroTime THEN "now" ELSE "draw"]
    ELSE IF call.op = "AppendBatch"
    THEN [op |-> call.op, arg |-> call.arg, now |-> ZeroTime, stamped |-> <<>>,
          pc |-> "now"]
    ELSE [op |-> call.op, arg |-> call.arg,
          pc |-> IF call.op = "Export" THEN "query"
                 ELSE IF call.op = "DeleteBefore" THEN "begin" ELSE "txn"]

\* a data-plane call that does not read db.closed
EnterUnchecked(c, call) ==
    /\ calls[c].pc = "idle"
    /\ mu = 0
    /\ IF ReturnsAtOnce(call)
       THEN last' = AtOnce(call) /\ UNCHANGED <<data, life>>
       ELSE /\ call.op \in {"Append", "AppendBatch"} =>
                  Cardinality(issued) + PendingWrites < MaxEvents
            /\ calls' = [calls EXCEPT ![c] = Entered(call)]
            /\ last' = NoReturn
            /\ UNCHANGED <<data, mu, retention, tasks, badger>>

\* db.mu.RLock(); if db.closed { db.mu.RUnlock(); return ErrClosed };
\* db.mu.RUnlock() of a data-plane call, and what the call does on its own
\* before it reads the clock, the ID source or the substrate
Enter(c, call) ==
    /\ calls[c].pc = "idle"
    /\ mu = 0
    /\ IF closed
       THEN last' \in Refused(call) /\ UNCHANGED <<data, life>>
       ELSE IF ReturnsAtOnce(call)
       THEN last' = AtOnce(call) /\ UNCHANGED <<data, life>>
       ELSE /\ call.op \in {"Append", "AppendBatch"} =>
                  Cardinality(issued) + PendingWrites < MaxEvents
            /\ calls' = [calls EXCEPT ![c] = Entered(call)]
            /\ last' = NoReturn
            /\ UNCHANGED <<data, mu, retention, tasks, badger>>

\* the events of a write
WriteEvents(call) == IF call.op = "Append" THEN <<call.arg>> ELSE call.arg

\* the readings of the clock for a write: one that stamps an event is
\* within the milliseconds of the identifiers
Readings(events) ==
    IF \E i \in 1..Len(events) : events[i].Timestamp = ZeroTime
    THEN StampNow ELSE TimeNow

\* time.Now() of Append for an event without timestamp, and of AppendBatch,
\* which then validates its events
ReadClock(c, now) ==
    /\ calls[c].pc = "now"
    /\ now \in Readings(WriteEvents(calls[c]))
    /\ clock' = now
    /\ IF calls[c].op = "AppendBatch" /\ BatchInvalid(calls[c].arg) # "nil"
       THEN /\ calls' = [calls EXCEPT ![c] = Idle]
            /\ last' = [op |-> "AppendBatch",
                        err |-> BatchInvalid(calls[c].arg), ret |-> <<>>]
       ELSE /\ calls' = [calls EXCEPT
                           ![c].now = now,
                           ![c].pc = IF calls[c].op = "Append" THEN "draw"
                                     ELSE "begin"]
            /\ last' = NoReturn
    /\ UNCHANGED <<kv, ulids, closed, issued, mu, retention, tasks, badger>>

\* db.badger.Update of AppendBatch and of DeleteBefore starts its
\* transaction: on a closed substrate it is refused with badger's error.
\* The function of the transaction of DeleteBefore reads the store as it
\* is now, whatever is committed before it is through.
Begin(c) ==
    /\ calls[c].pc = "begin"
    /\ IF badger = "closed"
       THEN /\ calls' = [calls EXCEPT ![c] = Idle]
            /\ last' = [op |-> calls[c].op, err |-> "ErrSubstrate"]
       ELSE IF calls[c].op = "DeleteBefore"
       THEN /\ calls' = [calls EXCEPT ![c] =
                               [op |-> "DeleteBefore", arg |-> calls[c].arg,
                                pc |-> "txn", txn |-> NewTxn(kv, calls[c].arg)]]
            /\ last' = NoReturn
       ELSE /\ calls' = [calls EXCEPT ![c].pc = "draw"]
            /\ last' = NoReturn
    /\ UNCHANGED <<data, mu, retention, tasks, badger>>

\* db.ulids.New(event.Timestamp), under the mutex of the ID source: of
\* Append before its transaction, of AppendBatch for the next event of its
\* loop
Draw(c) ==
    /\ calls[c].pc = "draw"
    /\ LET events == WriteEvents(calls[c])
           event == events[Len(calls[c].stamped) + 1]
           t == StampTime(event, calls[c].now)
       IN  \E e \in NewEntropies(ulids, t, IssuedIDs \cup DrawnIDs) :
              /\ ulids' = NewSource(t, e)
              /\ calls' = [calls EXCEPT
                             ![c].stamped = Append(@, Stamp(event, calls[c].now, e)),
                             ![c].pc = IF Len(calls[c].stamped) + 1 = Len(events)
                                       THEN "txn" ELSE "draw"]
    /\ last' = NoReturn
    /\ UNCHANGED <<kv, closed, issued, clock, mu, retention, tasks, badger>>

\* db.Query of Export reads db.closed again, under the read lock
QueryCheck(c) ==
    /\ calls[c].pc = "query"
    /\ mu = 0
    /\ IF closed
       THEN /\ calls' = [calls EXCEPT ![c] = Idle]
            /\ last' \in Refused(calls[c])
       ELSE /\ calls' = [calls EXCEPT ![c].pc = "txn"]
            /\ last' = NoReturn
    /\ UNCHANGED data
    /\ UNCHANGED <<mu, retention, tasks, badger>>

\* the keys that the transaction of a write sets
stampedKeys(stamped) ==
    UNION {{encodeEventKey(stamped[i].ID),
            encodeTypeIndexKey(stamped[i].Type, stamped[i].ID)}
           \cup {encodeTagIndexKey(k, stamped[i].Tags[k], stamped[i].ID) :
                    k \in DOMAIN stamped[i].Tags} :
             i \in 1..Len(stamped)}

\* db.badger.Update or db.badger.View of a data-plane call, for AppendBatch
\* the commit of the transaction and the return, for DeleteBefore the
\* function of the transaction, its commit and the return.  On a
\* closed substrate the call is refused with badger's error, but a
\* transaction that buffered nothing has nothing to commit.  A commit that
\* writes makes the transactions in flight that read a key of it conflict;
\* DeleteBefore returns the count of its loop with the error of the commit.
Transact(c) ==
    /\ calls[c].pc = "txn"
    /\ IF calls[c].op = "DeleteBefore"
       THEN \E orders \in DeleteOrders(findExpiredEvents(calls[c].txn.snap,
                                                           calls[c].arg)) :
               LET txn == deleteTxn(calls[c].txn.snap, calls[c].arg, orders, 0)
                   ws == committed(txn.ws, calls[c].txn.dirty, badger)
               IN  /\ kv' = ApplyWrites(kv, ws)
                   /\ last' = [op |-> "DeleteBefore", arg |-> calls[c].arg,
                               err |-> commitErr(txn.ws, calls[c].txn.dirty, badger),
                               ret |-> txn.deleted, failFrom |-> 0]
                   /\ calls' = markCalls([calls EXCEPT ![c] = Idle], Written(ws))
                   /\ tasks' = markTasks(tasks, Written(ws))
                   /\ UNCHANGED <<ulids, closed, issued, clock>>
       ELSE IF badger = "closed"
       THEN /\ last' = [op |-> calls[c].op, err |-> "ErrSubstrate"]
            /\ calls' = [calls EXCEPT ![c] = Idle]
            /\ UNCHANGED <<data, tasks>>
       ELSE IF calls[c].op \in {"Append", "AppendBatch"}
       THEN /\ \E orders \in RangeOrders([i \in 1..Len(calls[c].stamped) |->
                                             calls[c].stamped[i].Tags]) :
                  Commit(calls[c].op, calls[c].stamped, orders, 0)
            /\ calls' = markCalls([calls EXCEPT ![c] = Idle],
                                  stampedKeys(calls[c].stamped))
            /\ tasks' = markTasks(tasks, stampedKeys(calls[c].stamped))
            /\ UNCHANGED <<ulids, closed, clock>>
       ELSE /\ Handler(calls[c])
            /\ calls' = [calls EXCEPT ![c] = Idle]
            /\ UNCHANGED tasks
    /\ UNCHANGED <<mu, retention, badger>>

\* db.mu.Lock() of Close and of SetRetention(policy)
Lock(c, op, policy) ==
    /\ calls[c].pc = "idle"
    /\ mu = 0
    /\ mu' = c
    /\ calls' = [calls EXCEPT ![c] = [op |-> op, pc |-> "locked", arg |-> policy]]
    /\ last' = NoReturn
    /\ UNCHANGED <<data, retention, tasks, badger>>

\* the return of Close and of SetRetention, with the deferred db.mu.Unlock()
Return(c, err) ==
    /\ mu' = 0
    /\ calls' = [calls EXCEPT ![c] = Idle]
    /\ last' = [op |-> calls[c].op, err |-> err]

\* DB.Close: if db.closed { return ErrClosed }
CloseClosed(c) ==
    /\ calls[c].op = "Close" /\ calls[c].pc = "locked"
    /\ closed
    /\ Return(c, "ErrClosed")
    /\ UNCHANGED <<data, retention, tasks, badger>>

\* a stop that takes db.retention for nil and leaves its goroutine running
StopLockSkips(c) ==
    /\ calls[c].pc = "locked"
    /\ ~(calls[c].op = "Close" /\ closed)
    /\ calls' = [calls EXCEPT ![c].pc = "stopped"]
    /\ last' = NoReturn
    /\ UNCHANGED <<data, mu, retention, tasks, badger>>

\* if db.retention != nil && db.retention.isRunning(): the test for nil
\* and s.mu.Lock() of isRunning
StopLock(c) ==
    /\ calls[c].pc = "locked"
    /\ ~(calls[c].op = "Close" /\ closed)
    /\ IF retention = 0
       THEN /\ calls' = [calls EXCEPT ![c].pc = "stopped"]
            /\ UNCHANGED tasks
       ELSE /\ tasks[retention].mu = 0
            /\ tasks' = [tasks EXCEPT ![retention].mu = c]
            /\ calls' = [calls EXCEPT ![c].pc = "isRunning"]
    /\ last' = NoReturn
    /\ UNCHANGED <<data, mu, retention, badger>>

\* isRunning returns s.running and unlocks s.mu
StopIsRunning(c) ==
    /\ calls[c].pc = "isRunning"
    /\ tasks' = [tasks EXCEPT ![retention].mu = 0]
    /\ calls' = [calls EXCEPT ![c].pc =
                    IF tasks[retention].running THEN "cancel" ELSE "stopped"]
    /\ last' = NoReturn
    /\ UNCHANGED <<data, mu, retention, badger>>

\* db.retention.cancel()
StopCancel(c) ==
    /\ calls[c].pc = "cancel"
    /\ tasks' = [tasks EXCEPT ![retention].cancelled = TRUE]
    /\ calls' = [calls EXCEPT ![c].pc = "wait"]
    /\ last' = NoReturn
    /\ UNCHANGED <<data, mu, retention, badger>>

\* a stop that cancels and does not wait for the goroutine
StopWaitsNot(c) ==
    /\ calls[c].pc = "wait"
    /\ calls' = [calls EXCEPT ![c].pc = "stopped"]
    /\ last' = NoReturn
    /\ UNCHANGED <<data, mu, retention, tasks, badger>>

\* <-db.retention.done
StopWait(c) ==
    /\ calls[c].pc = "wait"
    /\ tasks[retention].done
    /\ calls' = [calls EXCEPT ![c].pc = "stopped"]
    /\ last' = NoReturn
    /\ UNCHANGED <<data, mu, retention, tasks, badger>>

\* DB.Close: db.closed = true; return db.badger.Close()
CloseFinish(c) ==
    /\ calls[c].op = "Close" /\ calls[c].pc = "stopped"
    /\ closed' = TRUE
    /\ badger' = "closed"
    /\ Return(c, "nil")
    /\ UNCHANGED <<kv, ulids, issued, clock, retention, tasks>>

\* a default interval without the floor of a minute
EffectiveNoFloor(policy) ==
    IF policy.CleanupInterval # 0 THEN policy
    ELSE [policy EXCEPT !.CleanupInterval = policy.MaxAge \div 10]

\* the policy that SetRetention stores: a CleanupInterval of zero becomes
\* MaxAge / 10, and no less than a minute
Effective(policy) ==
    IF policy.CleanupInterval # 0 THEN policy
    ELSE [policy EXCEPT !.CleanupInterval =
              IF policy.MaxAge \div 10 < Minute THEN Minute
              ELSE policy.MaxAge \div 10]

\* the retention state that SetRetention makes, with its goroutine about
\* to start; due is the instant of the ticker's next tick, cutoff the
\* cutoff of the pass under way and txn the transaction of that pass
NewTask(policy) ==
    [pc |-> "start", policy |-> policy, cancelled |-> FALSE, done |-> FALSE,
     running |-> TRUE, mu |-> 0, due |-> 0, cutoff |-> 0, txn |-> NoTxn]

\* a SetRetention that keeps db.retention when MaxAge is 0
SetRetentionKeeps(c) ==
    /\ calls[c].op = "SetRetention" /\ calls[c].pc = "stopped"
    /\ IF calls[c].arg.MaxAge = 0
       THEN UNCHANGED <<retention, tasks>>
       ELSE /\ tasks' = Append(tasks, NewTask(Effective(calls[c].arg)))
            /\ retention' = Len(tasks) + 1
    /\ Return(c, "nil")
    /\ UNCHANGED <<data, badger>>

\* DB.SetRetention after the stop of the previous goroutine: db.retention
\* becomes nil for MaxAge 0, else a new state whose goroutine is started
SetRetentionFinish(c) ==
    /\ calls[c].op = "SetRetention" /\ calls[c].pc = "stopped"
    /\ IF calls[c].arg.MaxAge = 0
       THEN retention' = 0 /\ UNCHANGED tasks
       ELSE /\ tasks' = Append(tasks, NewTask(Effective(calls[c].arg)))
            /\ retention' = Len(tasks) + 1
    /\ Return(c, "nil")
    /\ UNCHANGED <<data, badger>>

\* time.NewTicker(state.policy.CleanupInterval): the first tick is due one
\* interval after the instant of the call
TaskStart(t, now) ==
    /\ tasks[t].pc = "start"
    /\ now \in TimeNow
    /\ clock' = now
    /\ tasks' = [tasks EXCEPT ![t].due = now + tasks[t].policy.CleanupInterval,
                              ![t].pc = "now"]
    /\ last' = NoReturn
    /\ UNCHANGED <<kv, ulids, closed, issued, mu, calls, retention, badger>>

\* cutoff := time.Now().Add(-state.policy.MaxAge), on start and on each
\* tick
TaskNow(t, now) ==
    /\ tasks[t].pc = "now"
    /\ now \in TimeNow
    /\ clock' = now
    /\ tasks' = [tasks EXCEPT ![t].cutoff = now - tasks[t].policy.MaxAge,
                              ![t].pc = "pass"]
    /\ last' = NoReturn
    /\ UNCHANGED <<kv, ulids, closed, issued, mu, calls, retention, badger>>

\* db.deleteBefore(cutoff) of DB.runRetentionCleanup: db.badger.Update
\* starts the transaction, whose function reads the store as it is now; a
\* closed substrate refuses it and the pass is over
TaskBegin(t) ==
    /\ tasks[t].pc = "pass"
    /\ IF badger = "closed"
       THEN tasks' = [tasks EXCEPT ![t].cutoff = 0, ![t].pc = "select"]
       ELSE tasks' = [tasks EXCEPT ![t].txn = NewTxn(kv, tasks[t].cutoff),
                                   ![t].pc = "commit"]
    /\ last' = NoReturn
    /\ UNCHANGED <<data, mu, calls, retention, badger>>

\* the retention states after the pass of goroutine t, whose commit made
\* the transactions of the readers dirty
afterPass(t, readers) ==
    marked([tasks EXCEPT ![t].txn = NoTxn, ![t].cutoff = 0, ![t].pc = "select"],
           readers \ {t})

\* the function of that transaction, its commit and the return of
\* db.deleteBefore(cutoff); what it returns is dropped, a conflict with it
TaskPass(t) ==
    /\ tasks[t].pc = "commit"
    /\ \E orders \in DeleteOrders(findExpiredEvents(tasks[t].txn.snap,
                                                    tasks[t].txn.before)) :
          LET txn == deleteTxn(tasks[t].txn.snap, tasks[t].txn.before, orders, 0)
              ws == committed(txn.ws, tasks[t].txn.dirty, badger)
          IN  /\ kv' = ApplyWrites(kv, ws)
              /\ tasks' = afterPass(t, Readers(tasks, Written(ws)))
              /\ calls' = markCalls(calls, Written(ws))
    /\ last' = NoReturn
    /\ UNCHANGED <<ulids, closed, issued, clock, mu, retention, badger>>

\* the first tick after the instant now of a ticker whose tick was due
NextDue(due, interval, now) == due + interval * ((now - due) \div interval + 1)

\* select: case <-ticker.C, at an instant at which the tick is due; the
\* ticker drops the ticks that are due while one waits to be received
TaskTick(t, now) ==
    /\ tasks[t].pc = "select"
    /\ now \in TimeNow
    /\ now >= tasks[t].due
    /\ clock' = now
    /\ tasks' = [tasks EXCEPT
                    ![t].due = NextDue(@, tasks[t].policy.CleanupInterval, now),
                    ![t].pc = "now"]
    /\ last' = NoReturn
    /\ UNCHANGED <<kv, ulids, closed, issued, mu, calls, retention, badger>>

\* select: case <-ctx.Done(): return, with the deferred ticker.Stop()
TaskCancelled(t) ==
    /\ tasks[t].pc = "select"
    /\ tasks[t].cancelled
    /\ tasks' = [tasks EXCEPT ![t].due = 0, ![t].pc = "exit"]
    /\ last' = NoReturn
    /\ UNCHANGED <<data, mu, calls, retention, badger>>

\* deferred: state.mu.Lock()
TaskLock(t) ==
    /\ tasks[t].pc = "exit"
    /\ tasks[t].mu = 0
    /\ tasks' = [tasks EXCEPT ![t].mu = Goroutine, ![t].pc = "unlock"]
    /\ last' = NoReturn
    /\ UNCHANGED <<data, mu, calls, retention, badger>>

\* deferred: state.running = false; state.mu.Unlock()
TaskUnlock(t) ==
    /\ tasks[t].pc = "unlock"
    /\ tasks' = [tasks EXCEPT ![t].running = FALSE, ![t].mu = 0, ![t].pc = "close"]
    /\ last' = NoReturn
    /\ UNCHANGED <<data, mu, calls, retention, badger>>

\* a goroutine that returns without closing state.done
TaskDoneForgets(t) ==
    /\ tasks[t].pc = "close"
    /\ tasks' = [tasks EXCEPT ![t].pc = "done"]
    /\ last' = NoReturn
    /\ UNCHANGED <<data, mu, calls, retention, badger>>

\* deferred: close(state.done)
TaskDone(t) ==
    /\ tasks[t].pc = "close"
    /\ tasks' = [tasks EXCEPT ![t].done = TRUE, ![t].pc = "done"]
    /\ last' = NoReturn
    /\ UNCHANGED <<data, mu, calls, retention, badger>>

\* the instants at which the retention goroutines read the clock: in the
\* lifecycle the last instant of an event and the last instant of the clock;
\* in the retention passes the first and the last instant of an event and
\* the last instants of the clock
LifeInstants == {MaxTick, Minute + MaxTick + MaxLate}
RetainInstants == {TicksPerMs, MaxTick} \cup {t \in Instants : t >= MaxTick + MaxLate}

\* the event, the cutoff and the policies of the lifecycle
LifeEvent == [Type |-> TypeA, Tags |-> <<>>, Timestamp |-> TicksPerMs]

\* the policies: MaxAge is zero or one tick, CleanupInterval is left zero
Policies == [MaxAge : {0, 1}, CleanupInterval : {0}]

\* the events and the policies of the retention passes: timestamps from
\* the first millisecond on, ages up to one tick less than a millisecond
RetainCalls ==
    {[op |-> "Append", arg |-> [Type |-> TypeA, Tags |-> <<>>, Timestamp |-> ts]] :
        ts \in CallerTimes \ {ZeroTime}}

RetainPolicies == [MaxAge : 0..(TicksPerMs - 1), CleanupInterval : {0}]

\* the calls of concurrent writers and readers: events with tags, one of
\* them of a type that is not valid UTF-8, one without a type and one that
\* the clock stamps, a batch of two, a batch of none and one with an event
\* without a type, and a DeleteBefore that every event is before
VisibleCalls ==
    {[op |-> "Append", arg |-> [Type |-> t, Tags |-> TagsKV, Timestamp |-> TicksPerMs]] :
        t \in {<<>>, TypeA, TypeX}}
    \cup {[op |-> "Append",
           arg |-> [Type |-> TypeA, Tags |-> <<>>, Timestamp |-> ZeroTime]],
          [op |-> "AppendBatch",
           arg |-> <<[Type |-> TypeA, Tags |-> TagsKV, Timestamp |-> TicksPerMs],
                     [Type |-> TypeB, Tags |-> <<>>, Timestamp |-> TicksPerMs + 1]>>],
          [op |-> "AppendBatch", arg |-> <<>>],
          [op |-> "AppendBatch",
           arg |-> <<[Type |-> <<>>, Tags |-> <<>>, Timestamp |-> TicksPerMs]>>],
          [op |-> "Query", arg |-> EmptyQuery],
          [op |-> "Count", arg |-> 0],
          [op |-> "DeleteBefore", arg |-> MaxTick + 1]}
    \cup {[op |-> "Get", arg |-> id] : id \in AskedIDs}

\* the data-plane calls of the lifecycle
LifeCalls ==
    {[op |-> "Append", arg |-> LifeEvent],
     [op |-> "AppendBatch", arg |-> <<LifeEvent>>],
     [op |-> "Query", arg |-> EmptyQuery],
     [op |-> "Count", arg |-> 0],
     [op |-> "DeleteBefore", arg |-> MaxTick],
     [op |-> "Aggregate",
      arg |-> [q |-> EmptyQuery, field |-> <<>>, aggs |-> {"Count"}]],
     [op |-> "Export", arg |-> [q |-> EmptyQuery, format |-> "JSON"]]}
    \cup {[op |-> "Get", arg |-> id] : id \in AskedIDs}

(***************************************************************************)
(* Specifications.  A behaviour is a sequence of writes and deletes that   *)
(* one read may end: a read changes nothing but the record of the last     *)
(* call, so what a read returns after other reads it returns without them. *)
(***************************************************************************)
Reading == last.op \in {"Get", "Query", "Count", "Aggregate", "Export"}

\* every write and delete of the data plane, Get and the query for all
\* events, with no substrate fault
Next ==
    \/ ~Reading /\ ClientAppend(EventInputs, FALSE, MaxEvents) /\ UNCHANGED life
    \/ ~Reading /\ ClientAppendBatch(BatchesOf(BatchEvents), FALSE, MaxEvents) /\ UNCHANGED life
    \/ ~Reading /\ ClientGet /\ UNCHANGED life
    \/ ~Reading /\ ClientDeleteBefore(FALSE) /\ UNCHANGED life
    \/ ~Reading /\ ClientQuery(AllEvents) /\ UNCHANGED life
    \/ ~Reading /\ ClientCount /\ UNCHANGED life

Spec == Init /\ [][Next]_vars

\* the write path with substrate faults
NextWrite ==
    \/ ~Reading /\ ClientAppend(EventInputs, TRUE, MaxEvents) /\ UNCHANGED life
    \/ ~Reading /\ ClientAppendBatch(BatchesOf(BatchEvents), TRUE, MaxEvents) /\ UNCHANGED life
    \/ ~Reading /\ ClientGet /\ UNCHANGED life

SpecWrite == Init /\ [][NextWrite]_vars

\* the ID source: MaxDraws writes of plain events at any timestamps
NextID ==
    \/ ClientAppend(IDEvents, FALSE, MaxDraws) /\ UNCHANGED life
    \/ ClientAppendBatch(BatchesOf(IDEvents), FALSE, MaxDraws) /\ UNCHANGED life

SpecID == Init /\ [][NextID]_vars

\* writes followed by a query
NextQuery ==
    \/ ~Reading /\ ClientAppend(QueryEvents, FALSE, MaxEvents) /\ UNCHANGED life
    \/ ~Reading /\ ClientQuery(Queries) /\ UNCHANGED life

SpecQuery == Init /\ [][NextQuery]_vars

\* writes followed by a query with a limit, with type and tag filters that
\* name no empty value
NextLimit ==
    \/ ~Reading /\ ClientAppend(QueryEvents, FALSE, MaxEvents) /\ UNCHANGED life
    \/ ~Reading /\ ClientQuery(LimitQueries) /\ UNCHANGED life

SpecLimit == Init /\ [][NextLimit]_vars

\* writes and deletion passes in which the transaction may fill up at any
\* txn.Delete and the commit may fail
NextDelete ==
    \/ ClientAppend(DeleteEvents, FALSE, MaxEvents) /\ UNCHANGED life
    \/ ClientDeleteBefore(TRUE) /\ UNCHANGED life

SpecDelete == Init /\ [][NextDelete]_vars

\* the lifecycle: every call of the data plane, Close and SetRetention from
\* MaxClients goroutines, and the retention goroutines
NextLife ==
    \/ \E c \in Clients : \E call \in LifeCalls : Enter(c, call)
    \/ \E c \in Clients : \E now \in LifeInstants : ReadClock(c, now)
    \/ \E c \in Clients : Begin(c)
    \/ \E c \in Clients : Draw(c)
    \/ \E c \in Clients : QueryCheck(c)
    \/ \E c \in Clients : Transact(c)
    \/ \E c \in Clients : Lock(c, "Close", 0)
    \/ \E c \in Clients : \E policy \in Policies :
          /\ policy.MaxAge # 0 => Len(tasks) < MaxLifeTasks
          /\ Lock(c, "SetRetention", policy)
    \/ \E c \in Clients : CloseClosed(c)
    \/ \E c \in Clients : StopLock(c)
    \/ \E c \in Clients : StopIsRunning(c)
    \/ \E c \in Clients : StopCancel(c)
    \/ \E c \in Clients : StopWait(c)
    \/ \E c \in Clients : CloseFinish(c)
    \/ \E c \in Clients : SetRetentionFinish(c)
    \/ \E t \in 1..Len(tasks) : \E now \in LifeInstants : TaskStart(t, now)
    \/ \E t \in 1..Len(tasks) : \E now \in LifeInstants : TaskNow(t, now)
    \/ \E t \in 1..Len(tasks) : TaskBegin(t)
    \/ \E t \in 1..Len(tasks) : TaskPass(t)
    \/ \E t \in 1..Len(tasks) : \E now \in LifeInstants : TaskTick(t, now)
    \/ \E t \in 1..Len(tasks) : TaskCancelled(t)
    \/ \E t \in 1..Len(tasks) : TaskLock(t)
    \/ \E t \in 1..Len(tasks) : TaskUnlock(t)
    \/ \E t \in 1..Len(tasks) : TaskDone(t)

SpecLife == Init /\ [][NextLife]_vars

\* Close, SetRetention and the retention goroutines alone
NextStop ==
    \/ \E c \in Clients : Lock(c, "Close", 0)
    \/ \E c \in Clients : \E policy \in Policies :
          /\ policy.MaxAge # 0 => Len(tasks) < MaxTasks
          /\ Lock(c, "SetRetention", policy)
    \/ \E c \in Clients : CloseClosed(c)
    \/ \E c \in Clients : StopLock(c)
    \/ \E c \in Clients : StopIsRunning(c)
    \/ \E c \in Clients : StopCancel(c)
    \/ \E c \in Clients : StopWait(c)
    \/ \E c \in Clients : CloseFinish(c)
    \/ \E c \in Clients : SetRetentionFinish(c)
    \/ \E t \in 1..Len(tasks) : \E now \in RetainInstants : TaskStart(t, now)
    \/ \E t \in 1..Len(tasks) : \E now \in RetainInstants : TaskNow(t, now)
    \/ \E t \in 1..Len(tasks) : TaskBegin(t)
    \/ \E t \in 1..Len(tasks) : TaskPass(t)
    \/ \E t \in 1..Len(tasks) : \E now \in RetainInstants : TaskTick(t, now)
    \/ \E t \in 1..Len(tasks) : TaskCancelled(t)
    \/ \E t \in 1..Len(tasks) : TaskLock(t)
    \/ \E t \in 1..Len(tasks) : TaskUnlock(t)
    \/ \E t \in 1..Len(tasks) : TaskDone(t)

\* the step of goroutine t that ends a cleanup pass, which is TaskPass(t)
\* seen on the retention states: the goroutine is through with its pass and
\* the commit made the transactions of its readers dirty
PassEnds(t) ==
    /\ tasks[t].pc = "commit"
    /\ \E readers \in SUBSET (1..Len(tasks)) : tasks' = afterPass(t, readers)

\* the scheduler runs every goroutine that can take a step: a call that
\* holds db.mu goes on, a retention goroutine goes on, and a select whose
\* context is cancelled takes that case in the end, since select picks at
\* random among the cases that are ready
Fair ==
    /\ \A c \in Clients :
          /\ WF_vars(CloseClosed(c))
          /\ WF_vars(StopLock(c))
          /\ WF_vars(StopIsRunning(c))
          /\ WF_vars(StopCancel(c))
          /\ WF_vars(StopWait(c))
          /\ WF_vars(CloseFinish(c))
          /\ WF_vars(SetRetentionFinish(c))
    /\ \A t \in 1..MaxTasks :
          /\ WF_vars(t <= Len(tasks) /\ \E now \in RetainInstants : TaskStart(t, now))
          /\ WF_vars(t <= Len(tasks) /\ \E now \in RetainInstants : TaskNow(t, now))
          /\ WF_vars(t <= Len(tasks) /\ TaskBegin(t))
          /\ WF_tasks(t <= Len(tasks) /\ PassEnds(t))
          /\ SF_vars(t <= Len(tasks) /\ TaskCancelled(t))
          /\ WF_vars(t <= Len(tasks) /\ TaskLock(t))
          /\ WF_vars(t <= Len(tasks) /\ TaskUnlock(t))
          /\ WF_vars(t <= Len(tasks) /\ TaskDone(t))

SpecStop == Init /\ [][NextStop]_vars /\ Fair

\* writes, Close, SetRetention and the retention goroutines, whose ticker
\* fires again and again
NextRetain ==
    \/ \E c \in Clients : \E call \in RetainCalls : Enter(c, call)
    \/ \E c \in Clients : Draw(c)
    \/ \E c \in Clients : Transact(c)
    \/ \E c \in Clients : Lock(c, "Close", 0)
    \/ \E c \in Clients : \E policy \in RetainPolicies :
          /\ policy.MaxAge # 0 => Len(tasks) < MaxTasks
          /\ Lock(c, "SetRetention", policy)
    \/ \E c \in Clients : CloseClosed(c)
    \/ \E c \in Clients : StopLock(c)
    \/ \E c \in Clients : StopIsRunning(c)
    \/ \E c \in Clients : StopCancel(c)
    \/ \E c \in Clients : StopWait(c)
    \/ \E c \in Clients : CloseFinish(c)
    \/ \E c \in Clients : SetRetentionFinish(c)
    \/ \E t \in 1..Len(tasks) : \E now \in RetainInstants : TaskStart(t, now)
    \/ \E t \in 1..Len(tasks) : \E now \in RetainInstants : TaskNow(t, now)
    \/ \E t \in 1..Len(tasks) : TaskBegin(t)
    \/ \E t \in 1..Len(tasks) : TaskPass(t)
    \/ \E t \in 1..Len(tasks) : \E now \in RetainInstants : TaskTick(t, now)
    \/ \E t \in 1..Len(tasks) : TaskCancelled(t)
    \/ \E t \in 1..Len(tasks) : TaskLock(t)
    \/ \E t \in 1..Len(tasks) : TaskUnlock(t)
    \/ \E t \in 1..Len(tasks) : TaskDone(t)

\* the ticker of a goroutine that waits in its select fires in the end
FairTicks ==
    \A t \in 1..MaxTasks :
        WF_vars(t <= Len(tasks) /\ \E now \in RetainInstants : TaskTick(t, now))

\* clients that write, delete and read concurrently on an open handle
NextVisible ==
    \/ \E c \in Clients : \E call \in VisibleCalls : Enter(c, call)
    \/ \E c \in Clients : \E now \in Instants : ReadClock(c, now)
    \/ \E c \in Clients : Begin(c)
    \/ \E c \in Clients : Draw(c)
    \/ \E c \in Clients : Transact(c)

SpecVisible == Init /\ [][NextVisible]_vars

\* the floats whose mantissa has all its bits, at exponent zero
FloatInputs == {Canon(n, 0) : n \in Pow2(MantissaBits - 1)..(Pow2(MantissaBits) - 1)}

\* percentile alone: the values are drawn at the start, in any order and
\* with repetitions, then sorted and put through percentile for the three
\* quantiles
InitPercentile ==
    /\ last \in {[op |-> "values", values |-> s] :
                   s \in UNION {[1..n -> FloatInputs] : n \in 0..MaxValues}}
    /\ kv = <<>> /\ ulids = [ms |-> 0, entropy |-> 0] /\ closed = FALSE
    /\ issued = {} /\ clock = TicksPerMs /\ mu = 0 /\ calls = [c \in Clients |-> Idle]
    /\ retention = 0 /\ tasks = <<>> /\ badger = "open"

ApplyPercentile ==
    /\ last.op = "values"
    /\ last' = [op |-> "percentile", values |-> last.values,
                P50 |-> percentile(SortFloat64s(last.values), Quantile("P50")),
                P95 |-> percentile(SortFloat64s(last.values), Quantile("P95")),
                P99 |-> percentile(SortFloat64s(last.values), Quantile("P99"))]
    /\ UNCHANGED <<data, life>>

NextPercentile == ApplyPercentile

SpecPercentile == InitPercentile /\ [][NextPercentile]_vars

\* the type "a:b" and the tag strings "k=v" and "v=v", which hold the
\* delimiters of the index keys
TypeAB == TypeA \o <<Colon>> \o TypeB
TagKV == TagK \o <<EqualsSign>> \o TagV
TagVV == TagV \o <<EqualsSign>> \o TagV

\* what an event puts into its keys: its identifier, its type and one tag
KeyInputs ==
    [id : ULIDs, type : {TypeA, TypeB, TypeAB},
     tagKey : {TagK, TagKV, TagJ}, tagValue : {TagV, TagVV}]

\* the three keys of an input and what their decoders return
Encoded(x) ==
    [event |-> encodeEventKey(x.id),
     type  |-> encodeTypeIndexKey(x.type, x.id),
     tag   |-> encodeTagIndexKey(x.tagKey, x.tagValue, x.id)]

Decoded(keys) ==
    [event |-> decodeEventKey(keys.event),
     type  |-> decodeTypeIndexKey(keys.type),
     tag   |-> decodeTagIndexKey(keys.tag)]

\* the key codec alone: two inputs are drawn at the start, then encoded
\* and decoded
InitCodec ==
    /\ last \in [op : {"inputs"}, a : KeyInputs, b : KeyInputs]
    /\ kv = <<>> /\ ulids = [ms |-> 0, entropy |-> 0] /\ closed = FALSE
    /\ issued = {} /\ clock = TicksPerMs /\ mu = 0 /\ calls = [c \in Clients |-> Idle]
    /\ retention = 0 /\ tasks = <<>> /\ badger = "open"

ApplyCodec ==
    /\ last.op = "inputs"
    /\ last' = [op |-> "keys", a |-> last.a, b |-> last.b,
                ka |-> Encoded(last.a), kb |-> Encoded(last.b),
                da |-> Decoded(Encoded(last.a)), db |-> Decoded(Encoded(last.b))]
    /\ UNCHANGED <<data, life>>

NextCodec == ApplyCodec

SpecCodec == InitCodec /\ [][NextCodec]_vars

\* the queries that are answered by full scan: with and without time
\* bounds and a limit, in both directions
ScanQueries ==
    [Start : {None, Some(TicksPerMs + 1)}, End : {None, Some(TicksPerMs)},
     Types : {<<>>, <<TypeA, TypeB>>}, Tags : {<<>>},
     Limit : {0, 1}, Descending : BOOLEAN]

\* writes followed by a query or an aggregation that scans the primary keys
NextScan ==
    \/ ~Reading /\ ClientAppend(QueryEvents, FALSE, MaxEvents) /\ UNCHANGED life
    \/ ~Reading /\ ClientQuery(ScanQueries) /\ UNCHANGED life
    \/ ~Reading /\ ClientAggregate(ScanQueries) /\ UNCHANGED life

SpecScan == Init /\ [][NextScan]_vars

\* the queries with and without a limit, answered by the type index, by the
\* tag index and by full scan
PlanQueries == LimitQueries \cup {[q EXCEPT !.Limit = 0] : q \in LimitQueries}

\* writes followed by an aggregation under one of the three plans
NextPlans ==
    \/ ~Reading /\ ClientAppend(QueryEvents, FALSE, MaxEvents) /\ UNCHANGED life
    \/ ~Reading /\ ClientAggregate(PlanQueries) /\ UNCHANGED life

SpecPlans == Init /\ [][NextPlans]_vars

\* the bytes and the byte strings of prefixes and keys
KeyBytes == (0..MaxLowByte) \cup {ByteFF}

ByteStrings == UNION {[1..n -> KeyBytes] : n \in 1..MaxKeyLen}

\* prefixEnd alone: a non-empty prefix is drawn at the start and put
\* through prefixEnd
InitPrefix ==
    /\ last \in [op : {"prefix"}, p : ByteStrings]
    /\ kv = <<>> /\ ulids = [ms |-> 0, entropy |-> 0] /\ closed = FALSE
    /\ issued = {} /\ clock = TicksPerMs /\ mu = 0 /\ calls = [c \in Clients |-> Idle]
    /\ retention = 0 /\ tasks = <<>> /\ badger = "open"

ApplyPrefixEnd ==
    /\ last.op = "prefix"
    /\ last' = [op |-> "prefixEnd", p |-> last.p, end |-> prefixEnd(last.p)]
    /\ UNCHANGED <<data, life>>

NextPrefix == ApplyPrefixEnd

SpecPrefix == InitPrefix /\ [][NextPrefix]_vars

\* writes of events with payloads followed by an aggregation
NextAggregate ==
    \/ ~Reading /\ ClientAppend(AggregateEvents, FALSE, MaxEvents) /\ UNCHANGED life
    \/ ~Reading /\ ClientAggregate(AggregateQueries) /\ UNCHANGED life

SpecAggregate == Init /\ [][NextAggregate]_vars

\* writes of events with tags and payloads followed by an export
NextExport ==
    \/ ~Reading /\ ClientAppend(AggregateEvents, FALSE, MaxEvents) /\ UNCHANGED life
    \/ ~Reading /\ ClientExport(AggregateQueries) /\ UNCHANGED life

SpecExport == Init /\ [][NextExport]_vars

\* policies around the floor of the default interval: MaxAge / 10 below a
\* minute, a minute, and above it with and without a remainder
IntervalPolicies ==
    [MaxAge : {0, 1, Minute, 10 * Minute - 1, 10 * Minute, 10 * Minute + 1,
               10 * Minute + 10, 20 * Minute + 5},
     CleanupInterval : {0, 1, Minute - 1, Minute, 2 * Minute}]

\* SetRetention with those policies, Close and the retention goroutines
NextInterval ==
    \/ \E c \in Clients : Lock(c, "Close", 0)
    \/ \E c \in Clients : \E policy \in IntervalPolicies :
          /\ policy.MaxAge # 0 => Len(tasks) < MaxTasks
          /\ Lock(c, "SetRetention", policy)
    \/ \E c \in Clients : CloseClosed(c)
    \/ \E c \in Clients : StopLock(c)
    \/ \E c \in Clients : StopIsRunning(c)
    \/ \E c \in Clients : StopCancel(c)
    \/ \E c \in Clients : StopWait(c)
    \/ \E c \in Clients : CloseFinish(c)
    \/ \E c \in Clients : SetRetentionFinish(c)
    \/ \E t \in 1..Len(tasks) : \E now \in LifeInstants : TaskStart(t, now)
    \/ \E t \in 1..Len(tasks) : \E now \in LifeInstants : TaskNow(t, now)
    \/ \E t \in 1..Len(tasks) : TaskBegin(t)
    \/ \E t \in 1..Len(tasks) : TaskPass(t)
    \/ \E t \in 1..Len(tasks) : \E now \in LifeInstants : TaskTick(t, now)
    \/ \E t \in 1..Len(tasks) : TaskCancelled(t)
    \/ \E t \in 1..Len(tasks) : TaskLock(t)
    \/ \E t \in 1..Len(tasks) : TaskUnlock(t)
    \/ \E t \in 1..Len(tasks) : TaskDone(t)

SpecInterval == Init /\ [][NextInterval]_vars

SpecRetain == Init /\ [][NextRetain]_vars /\ Fair /\ FairTicks

(***************************************************************************)
(* What the claims speak of.                                               *)
(***************************************************************************)
Range(seq) == {seq[i] : i \in 1..Len(seq)}

\* the stored events: the primary records, decoded, in key order
StoredEvents(store) ==
    LET recs == SelectSeq(store, LAMBDA en : HasPrefix(en.key, prefixEvent))
    IN  [i \in 1..Len(recs) |-> Unmarshal(recs[i].val).event]

\* the index entries that an event with these fields has
IndexKeysOf(ev) ==
    {encodeTypeIndexKey(ev.Type, ev.ID)}
    \cup {encodeTagIndexKey(k, ev.Tags[k], ev.ID) : k \in DOMAIN ev.Tags}

\* the keys of the two index keyspaces
IndexKeys(store) == {k \in Keys(store) : ~HasPrefix(k, prefixEvent)}

\* the identifier the ID source drew last
LastDrawn == ULID(ulids.ms, ulids.entropy)

\* the identifier that ends a key
KeyID(k) == ParseStrict(SubSeq(k, Len(k) - EncodedSize + 1, Len(k)))

\* the keys that end with the identifier id
KeysOfID(store, id) ==
    {k \in Keys(store) : KeyID(k) = [ok |-> TRUE, id |-> id]}

\* a write returned success in the step
Wrote == last'.op \in {"Append", "AppendBatch"} /\ last'.err = "nil"

(***************************************************************************)
(* The claims.                                                             *)
(***************************************************************************)
\* C1: in every reachable state the three keyspaces agree: every stored
\* event has its primary record under its own identifier, the type-index
\* entry of its type and the tag-index entry of each of its tag pairs, and
\* every index entry is the entry of a stored event with that identifier,
\* type or tag pair.
C1_KeyspacesAgree ==
    LET evs == StoredEvents(kv)
    IN  /\ \A i \in 1..Len(evs) :
              /\ HasKey(kv, encodeEventKey(evs[i].ID))
              /\ IndexKeysOf(evs[i]) \subseteq IndexKeys(kv)
        /\ \A k \in IndexKeys(kv) : \E i \in 1..Len(evs) : k \in IndexKeysOf(evs[i])

\* C2: an Append in which a substrate call failed returns an error and
\* leaves the store exactly as it was, with no key of the identifier it
\* drew; an Append that returns success has written the event's keys.
C2_AppendAtomic ==
    [][last'.op = "Append" /\ last'.err \notin {"ErrClosed", "ErrEmptyType"} =>
         IF last'.err = "nil"
         THEN /\ HasKey(kv', encodeEventKey(last'.ret[1].ID))
              /\ IndexKeysOf(last'.ret[1]) \subseteq Keys(kv')
         ELSE /\ kv' = kv
              /\ last'.ret = <<>>
              /\ KeysOfID(kv', ULID(ulids'.ms, ulids'.entropy)) = {}]_vars

\* an Append failed in the substrate when the store held events
C2_Witness ==
    /\ last.op = "Append"
    /\ last.err = "ErrSubstrate"
    /\ LastDrawn \notin IssuedIDs
    /\ Len(StoredEvents(kv)) > 0

\* C3: after AppendBatch either the call returned success and every event
\* of the batch is stored with its primary record and all its index
\* entries, or it returned an error and the store is as before, with no key
\* of any event of the batch.
C3_BatchAllOrNothing ==
    [][last'.op = "AppendBatch" =>
         IF last'.err = "nil"
         THEN \A i \in 1..Len(last'.ret) :
                 /\ HasKey(kv', encodeEventKey(last'.ret[i].ID))
                 /\ Unmarshal(ValueOf(kv', encodeEventKey(last'.ret[i].ID))).ok
                 /\ IndexKeysOf(last'.ret[i]) \subseteq Keys(kv')
         ELSE /\ kv' = kv
              /\ last'.ret = <<>>
              /\ \A k \in Keys(kv') : KeyID(k).ok /\ KeyID(k).id \in IssuedIDs]_vars

\* a batch failed in the substrate after the ID source had drawn for it,
\* when the store held events
C3_Witness ==
    /\ last.op = "AppendBatch"
    /\ last.err = "ErrSubstrate"
    /\ LastDrawn \notin IssuedIDs
    /\ Len(StoredEvents(kv)) > 0

\* C4: AppendBatch validates before it writes: a batch that is rejected
\* with ErrEmptyType leaves the store unchanged and draws no identifier,
\* and no batch that is written holds an event with an empty type.
C4_BatchValidatesFirst ==
    [][last'.op = "AppendBatch" =>
         /\ last'.err = "ErrEmptyType" => kv' = kv /\ ulids' = ulids /\ last'.ret = <<>>
         /\ \A i \in 1..Len(last'.ret) : last'.ret[i].Type # <<>>
         /\ \A i \in 1..Len(StoredEvents(kv')) : StoredEvents(kv')[i].Type # <<>>]_vars

\* a batch was rejected for an empty type when the store held events and
\* the ID source had drawn
C4_Witness ==
    /\ last.op = "AppendBatch"
    /\ last.err = "ErrEmptyType"
    /\ Len(StoredEvents(kv)) > 0
    /\ ulids.entropy # 0

\* C5: read-your-writes: Get of the identifier of every event a successful
\* write returned gives an event with the same identifier, type, tags and
\* timestamp, and keeps giving it until a DeleteBefore; Get of every event
\* a query returned gives an equal event in the same state.
C5_ReadYourWrites ==
    [][/\ Wrote => \A i \in 1..Len(last'.ret) :
                      Get(kv', last'.ret[i].ID) = [err |-> "nil", ret |-> last'.ret[i]]
       /\ last'.op # "DeleteBefore" =>
             \A id \in IssuedIDs : Get(kv', id) = Get(kv, id)
       /\ last'.op = "Get" /\ last'.arg \in IssuedIDs =>
             last' = [op |-> "Get", arg |-> last'.arg] @@ Get(kv, last'.arg)
       /\ last'.op = "Query" =>
             \A i \in 1..Len(last'.ret) :
                 Get(kv', last'.ret[i].ID) = [err |-> "nil", ret |-> last'.ret[i]]]_vars

\* C6: the identifiers that the writes of one handle return are pairwise
\* distinct, and of two writes with the same timestamp the later one gets
\* the greater identifier, whatever timestamps were written in between.
C6_IDsDistinctAndIncreasing ==
    [][Wrote =>
         \A i \in 1..Len(last'.ret) :
            /\ \A w \in issued :
                  /\ w.id # last'.ret[i].ID
                  /\ w.ts = last'.ret[i].Timestamp => ULIDLess(w.id, last'.ret[i].ID)
            /\ \A j \in 1..(i - 1) :
                  /\ last'.ret[j].ID # last'.ret[i].ID
                  /\ last'.ret[j].Timestamp = last'.ret[i].Timestamp =>
                        ULIDLess(last'.ret[j].ID, last'.ret[i].ID)]_vars

\* what a query asks for, in the words of its documentation
InTime(ev, q) ==
    /\ q.Start.some => q.Start.v <= ev.Timestamp
    /\ q.End.some => ev.Timestamp <= q.End.v

OfTypes(ev, q) == q.Types = <<>> \/ ev.Type \in Range(q.Types)

Carries(ev, q) ==
    \A k \in DOMAIN q.Tags : k \in DOMAIN ev.Tags /\ ev.Tags[k] = q.Tags[k]

\* the stored events that match every filter of q, in the direction of q
Matching(store, q) ==
    LET m == SelectSeq(StoredEvents(store),
                       LAMBDA ev : InTime(ev, q) /\ OfTypes(ev, q) /\ Carries(ev, q))
    IN  IF q.Descending THEN Reverse(m) ELSE m

\* C7: a query with a limit L > 0 returns the first min(L, M) of the M
\* stored events that match all its filters, in its direction.
C7_LimitCountsSurvivors ==
    last.op = "Query" /\ last.arg.Limit > 0 =>
        last.ret = SubSeq(Matching(kv, last.arg), 1,
                          Min(last.arg.Limit, Len(Matching(kv, last.arg))))

\* C8: a query with only time bounds and no limit returns exactly the
\* stored events whose timestamp lies within the bounds, the bounds
\* included, also when a timestamp and a bound share a millisecond.
C8_TimeBoundsInclusive ==
    /\ last.op = "Query"
    /\ last.arg.Types = <<>> /\ DOMAIN last.arg.Tags = {} /\ last.arg.Limit = 0
    => Range(last.ret) = {ev \in Range(StoredEvents(kv)) : InTime(ev, last.arg)}

\* C9: a query with tag filters, with or without a type filter, and no
\* limit returns exactly the stored events of its types that carry every
\* tag of the query with the value asked for; an event without one of the
\* tags is not returned, also when the value asked for is empty.
C9_TagFiltersConjunctive ==
    /\ last.op = "Query"
    /\ DOMAIN last.arg.Tags # {} /\ last.arg.Limit = 0
    /\ ~last.arg.Start.some /\ ~last.arg.End.some
    => Range(last.ret) =
          {ev \in Range(StoredEvents(kv)) : OfTypes(ev, last.arg) /\ Carries(ev, last.arg)}

\* C10: the events a query returns are in strict order of identifier,
\* ascending, or descending when the query is, whichever plan answers it.
C10_OrderedByID ==
    last.op = "Query" =>
        \A i \in 1..(Len(last.ret) - 1) :
            IF last.arg.Descending
            THEN ULIDLess(last.ret[i + 1].ID, last.ret[i].ID)
            ELSE ULIDLess(last.ret[i].ID, last.ret[i + 1].ID)

\* C11: in every reachable state Count() returns the number of primary
\* records of the store, which is the number of events that the query with
\* no filter and no limit returns.
C11_CountIsPrimaryRecords ==
    last.op = "Count" /\ last.err = "nil" =>
        /\ last.ret = Cardinality({k \in Keys(kv) : HasPrefix(k, prefixEvent)})
        /\ last.ret = Len(Query(kv, EmptyQuery, <<>>))

\* Count() returned the number of two stored events that have index entries
C11_Witness ==
    /\ last.op = "Count" /\ last.err = "nil" /\ last.ret = 2
    /\ IndexKeys(kv) # {}

\* a deletion pass returned success in the step
Deleted == last'.op = "DeleteBefore" /\ last'.err = "nil"

\* the queries with one type filter or one tag filter
FilterQueries ==
    {[EmptyQuery EXCEPT !.Types = <<TypeA>>], [EmptyQuery EXCEPT !.Tags = TagsKV]}

\* C12: after DeleteBefore(t) returned success no event with a timestamp
\* before t is reachable: Get of its identifier returns ErrNotFound, no
\* query with a type filter or a tag filter returns it, and no key of the
\* three keyspaces ends with its identifier.
C12_ExpiredUnreachable ==
    [][Deleted =>
         \A w \in issued : w.ts < last'.arg =>
            /\ Get(kv', w.id).err = "ErrNotFound"
            /\ \A q \in FilterQueries : \A first \in Firsts(q) :
                  \A i \in 1..Len(Query(kv', q, first)) :
                      Query(kv', q, first)[i].ID # w.id
            /\ KeysOfID(kv', w.id) = {}]_vars

\* C13: DeleteBefore(cutoff) leaves every event with a timestamp at or
\* after the cutoff as it was, with its primary record and its index
\* entries, also when the timestamp and the cutoff share a millisecond.
C13_DeletesOnlyExpired ==
    [][last'.op = "DeleteBefore" =>
         \A w \in issued : w.ts >= last'.arg =>
            \A k \in KeysOfID(kv, w.id) :
                HasKey(kv', k) /\ ValueOf(kv', k) = ValueOf(kv, k)]_vars

\* C14: the count that a successful DeleteBefore returns is the number of
\* primary records the call removed: Count() before it minus Count() after.
C14_CountIsRemoved ==
    [][Deleted => last'.ret = Count(kv) - Count(kv')]_vars

\* C15: a deletion pass in which a txn.Delete failed returns the error and
\* leaves the store as it was.
C15_DeleteErrorAborts ==
    [][last'.op = "DeleteBefore" /\ last'.err # "ErrClosed" /\ last'.failFrom # 0 =>
         last'.err = "ErrSubstrate" /\ kv' = kv]_vars

\* a data-plane call or a Close returned in the step without a transaction
ReturnedAtOnce == calls' = calls /\ last'.op # "none"

\* the positions of a data-plane call after its look at db.closed
Admitted == {"now", "begin", "draw", "query", "txn"}

\* C16: once Close has returned, every later call of a data-plane
\* operation returns ErrClosed in its first step, before it reads the
\* clock, the ID source or the substrate and with the store as it was, and
\* every later Close returns ErrClosed and leaves the substrate alone.
C16_ClosedHandleRefuses ==
    [][closed =>
         /\ \A c \in Clients : calls[c].pc = "idle" => calls'[c].pc \notin Admitted
         /\ ReturnedAtOnce =>
               last'.err = "ErrClosed" /\ kv' = kv /\ ulids' = ulids /\ clock' = clock
         /\ \A c \in Clients :
               calls[c].op = "Close" /\ calls'[c].pc = "idle" =>
                   last' = [op |-> "Close", err |-> "ErrClosed"] /\ kv' = kv]_vars

\* a DeleteBefore on a closed handle that holds events returned ErrClosed
C16_Witness ==
    /\ closed
    /\ last.op = "DeleteBefore" /\ last.err = "ErrClosed"
    /\ Len(kv) > 0

\* C17: a data-plane call that runs concurrently with Close never starts
\* its transaction after Close has closed the substrate, and what it
\* returns is its result on the open handle or ErrClosed.
C17_NoTransactionAfterClose ==
    [][\A c \in Clients :
         \/ calls[c].pc = "begin" /\ calls'[c].pc # "begin"
         \/ calls[c].pc = "txn" /\ calls'[c].pc = "idle"
         => badger = "open" /\ last'.err # "ErrSubstrate"]_vars

\* the retention goroutines that have left their loop for good
Finished(ts) == {t \in 1..Len(ts) : ts[t].pc \in {"close", "done"}}

\* C18: when Close closes the substrate every retention goroutine has been
\* stopped and has left its loop, and a goroutine that has left its loop
\* makes no further pass.
C18_TaskStopsBeforeClose ==
    [][/\ badger = "open" /\ badger' = "closed" =>
             \A t \in 1..Len(tasks) : t \in Finished(tasks) /\ ~tasks[t].running
       /\ Finished(tasks) \subseteq Finished(tasks')]_vars

\* Close is about to close the substrate after it cancelled the goroutine
\* of db.retention and received from its done channel
C18_Witness ==
    /\ \E c \in Clients : calls[c].op = "Close" /\ calls[c].pc = "stopped"
    /\ retention # 0 /\ tasks[retention].done /\ tasks[retention].cancelled

\* C19: under fair scheduling every Close and every SetRetention that
\* holds db.mu returns, whether the retention goroutine is between ticks
\* or in a pass when it is cancelled.
C19_StopTerminates ==
    \A c \in Clients : (calls[c].pc # "idle") ~> (calls[c].pc = "idle")

\* a call waits for the done channel of a goroutine that is in a pass
C19_Witness ==
    \E c \in Clients :
        /\ calls[c].pc = "wait"
        /\ tasks[retention].pc = "pass" /\ tasks[retention].cancelled

\* C20: in every reachable state at most one retention goroutine of the
\* handle has not returned.
C20_OneTask ==
    Cardinality({t \in 1..Len(tasks) : tasks[t].pc # "done"}) <= 1

\* a second goroutine runs after the first has returned
C20_Witness ==
    /\ Len(tasks) = 2
    /\ tasks[1].pc = "done"
    /\ tasks[2].pc \in {"pass", "select"}

\* the retention goroutines that have not returned
Live(ts) == {t \in 1..Len(ts) : ts[t].pc # "done"}

\* C21: when SetRetention with MaxAge = 0 returns, every retention
\* goroutine of the handle has returned and db.retention is nil; while
\* db.retention stays nil no goroutine takes a step, so no pass runs.
C21_DisableLeavesIdle ==
    [][/\ \A c \in Clients :
             /\ calls[c].op = "SetRetention" /\ calls[c].arg.MaxAge = 0
             /\ calls'[c].pc = "idle"
             => retention' = 0 /\ Live(tasks') = {}
       /\ retention = 0 /\ retention' = 0 => Live(tasks) = {} /\ tasks' = tasks]_vars

\* SetRetention with MaxAge = 0 returned after it had cancelled a goroutine
C21_Witness ==
    /\ last = [op |-> "SetRetention", err |-> "nil"]
    /\ retention = 0
    /\ Len(tasks) > 0 /\ tasks[Len(tasks)].cancelled

\* the instant before which an event is older than the MaxAge of goroutine
\* t, by the clock
CutoffOf(t) == clock - tasks[t].policy.MaxAge

\* the policy of db.retention is in force: the handle is open and the
\* goroutine has not been cancelled
Cleaning == ~closed /\ retention # 0 /\ ~tasks[retention].cancelled

\* a pass of the goroutine of db.retention is still to come: it has not yet
\* read the clock for its pass, or the clock has an instant left at which
\* its ticker fires
PassToCome ==
    \/ tasks[retention].pc \in {"start", "now"}
    \/ /\ tasks[retention].pc \in {"pass", "commit", "select"}
       /\ \E now \in RetainInstants : now >= clock /\ now >= tasks[retention].due

\* the event with identifier id is stored and older than the MaxAge in
\* force, and a pass is still to come
Expired(id) ==
    /\ Cleaning
    /\ PassToCome
    /\ HasKey(kv, encodeEventKey(id))
    /\ \E w \in issued : w.id = id /\ w.ts < CutoffOf(retention)

\* C22: a pass of a retention goroutine deletes no event that is younger
\* than MaxAge at the time of the pass, and under fair scheduling every
\* stored event older than MaxAge is deleted in the end, unless the handle
\* is closed or the policy replaced before, or the clock has no instant
\* left for a tick.
C22_RetentionPasses ==
    /\ [][\A t \in 1..Len(tasks) :
             tasks[t].pc = "commit" /\ tasks'[t].pc = "select" =>
                 \A w \in issued :
                     w.ts > CutoffOf(t) => KeysOfID(kv, w.id) \subseteq Keys(kv')]_vars
    /\ (\E id \in ULIDs : Expired(id)) ~> (\A id \in ULIDs : ~Expired(id))

\* C23: the retention state that SetRetention makes for a policy with
\* MaxAge > 0 keeps the caller's MaxAge, and its cleanup interval is the
\* caller's CleanupInterval when that is not zero, and otherwise the larger
\* of MaxAge / 10 and one minute.
C23_EffectiveInterval ==
    [][\A c \in Clients :
          /\ calls[c].op = "SetRetention" /\ calls[c].pc = "stopped"
          /\ calls'[c].pc = "idle"
          /\ calls[c].arg.MaxAge > 0
          => /\ retention' = Len(tasks')
             /\ tasks'[retention'].policy.MaxAge = calls[c].arg.MaxAge
             /\ tasks'[retention'].policy.CleanupInterval =
                    IF calls[c].arg.CleanupInterval # 0
                    THEN calls[c].arg.CleanupInterval
                    ELSE IF calls[c].arg.MaxAge \div 10 >= Minute
                         THEN calls[c].arg.MaxAge \div 10
                         ELSE Minute]_vars

\* SetRetention has stored one policy whose default interval is the floor
\* of a minute and one whose default interval is MaxAge / 10, rounded down
C23_Witness ==
    /\ last = [op |-> "SetRetention", err |-> "nil"]
    /\ Len(tasks) = 2
    /\ tasks[1].policy = [MaxAge |-> 10 * Minute - 1, CleanupInterval |-> Minute]
    /\ tasks[2].policy = [MaxAge |-> 20 * Minute + 5, CleanupInterval |-> 2 * Minute]

\* C24: no stored event has an empty type, and an Append of an event with
\* an empty type on an open handle returns ErrEmptyType and leaves the store,
\* the ID source and the identifiers given out as they were.
C24_EmptyTypeRejected ==
    /\ [](\A i \in 1..Len(StoredEvents(kv)) : StoredEvents(kv)[i].Type # <<>>)
    /\ [][\A event \in {ev \in EventInputs : ev.Type = <<>>}, e \in 0..MaxEntropy :
             \A now \in {clock, MaxTick}, order \in TagOrders(event.Tags) :
               ~closed /\ last'.op = "Append" /\ DBAppend(event, now, e, order, 0)
               => /\ last'.err = "ErrEmptyType"
                  /\ kv' = kv /\ ulids' = ulids /\ issued' = issued
                  /\ clock' = clock]_vars

\* an Append was refused for its empty type on an open handle that holds
\* events
C24_Witness ==
    /\ last.op = "Append" /\ last.err = "ErrEmptyType"
    /\ ~closed
    /\ Len(StoredEvents(kv)) > 0

\* the keys that a writer's transaction sets for the event
WrittenKeys(ev) ==
    {w.key : w \in UNION {{EventWrites(ev, order)[i] : i \in 1..NumWrites(ev)} :
                             order \in TagOrders(ev.Tags)}}

\* C25: the transactions of clients that run concurrently change the keys
\* of an event together, so that the store a reader's transaction sees holds
\* an event with its primary record and all its index entries or with none
\* of them: a transaction leaves the keys of an identifier alone, or writes
\* the primary record and every index entry of an event it returns, or
\* removes them all; and a write that fails leaves the store unchanged, while
\* one that succeeds has stored every event of its batch.
C25_VisibleTogether ==
    [][/\ \A id \in ULIDs :
             \/ KeysOfID(kv', id) = KeysOfID(kv, id)
             \/ /\ KeysOfID(kv, id) = {}
                /\ last'.op \in {"Append", "AppendBatch"}
                /\ \E i \in 1..Len(last'.ret) :
                      /\ last'.ret[i].ID = id
                      /\ KeysOfID(kv', id) = WrittenKeys(last'.ret[i])
             \/ /\ last'.op = "DeleteBefore"
                /\ KeysOfID(kv', id) = {}
       /\ last'.op \in {"Append", "AppendBatch"} =>
             IF last'.err = "nil"
             THEN \A i \in 1..Len(last'.ret) :
                     WrittenKeys(last'.ret[i]) \subseteq Keys(kv')
             ELSE kv' = kv]_vars

\* the event carries a number under the field
NumericUnder(ev, field) ==
    /\ field \in DOMAIN DataOf(ev)
    /\ ev.Data[field].kind \in {"float64", "int"}

\* the stored events an aggregation over the field counts: those that match
\* every filter of q and, for a field, carry a number under it
Counted(store, q, field) ==
    IF field = <<>> THEN Matching(store, q)
    ELSE SelectSeq(Matching(store, q), LAMBDA ev : NumericUnder(ev, field))

\* their values, in the direction of q
CountedValues(store, q, field) ==
    [i \in 1..Len(Counted(store, q, field)) |-> Counted(store, q, field)[i].Data[field].f]

RECURSIVE SumOf(_)
\* the sum of the values, added from the first to the last
SumOf(values) ==
    IF values = <<>> THEN FZero
    ELSE FAdd(SumOf(SubSeq(values, 1, Len(values) - 1)), values[Len(values)])

\* x <= y
FLeq(x, y) == ~FLess(y, x)

\* C26: an aggregation without a limit that returns a result counts the
\* stored events that match the query and, when a field is named, carry a
\* number under it; Sum is the sum of the values of the counted events, Min
\* the least and Max the greatest of them.
C26_AggregateCounts ==
    /\ last.op = "Aggregate" /\ last.err = "nil" /\ last.q.Limit = 0
    => LET values == CountedValues(kv, last.q, last.field)
       IN  /\ last.ret.Count = Len(Counted(kv, last.q, last.field))
           /\ last.field # <<>> /\ Len(values) > 0 =>
                 /\ last.ret.Sum = SumOf(values)
                 /\ \E i \in 1..Len(values) : last.ret.Min = values[i]
                 /\ \E i \in 1..Len(values) : last.ret.Max = values[i]
                 /\ \A i \in 1..Len(values) :
                       FLeq(last.ret.Min, values[i]) /\ FLeq(values[i], last.ret.Max)

\* C28: the percentiles of a sorted sequence of values are monotone,
\* P50 <= P95 <= P99; one value is its own percentile for all three, and
\* no value gives 0.
C28_PercentilesMonotone ==
    last.op = "percentile" =>
        /\ Len(last.values) = 0 =>
              last.P50 = FZero /\ last.P95 = FZero /\ last.P99 = FZero
        /\ Len(last.values) = 1 =>
              /\ last.P50 = last.values[1]
              /\ last.P95 = last.values[1]
              /\ last.P99 = last.values[1]
        /\ FLeq(last.P50, last.P95) /\ FLeq(last.P95, last.P99)

\* C27: in every result of an aggregation Avg is Sum / Count when Count > 0
\* and a field is named; Sum, Min, Max and Avg are all 0 when Count = 0 or
\* no field is named; the values that min and max start from are never
\* reported.
C27_AvgAndZeros ==
    last.op = "Aggregate" /\ last.err = "nil" =>
        /\ last.ret.Count > 0 /\ last.field # <<>> =>
              last.ret.Avg = FDiv(last.ret.Sum, FromInt(last.ret.Count))
        /\ last.ret.Count = 0 \/ last.field = <<>> =>
              /\ last.ret.Sum = FZero /\ last.ret.Avg = FZero
              /\ last.ret.Min = FZero /\ last.ret.Max = FZero
        /\ last.ret.Min # MaxFloat64 /\ last.ret.Max # FNeg(MaxFloat64)

\* an aggregation over a field has counted two events with different
\* values, so that Avg is neither of them
C27_Witness ==
    /\ last.op = "Aggregate" /\ last.err = "nil"
    /\ last.field # <<>> /\ last.ret.Count = 2
    /\ last.ret.Min # last.ret.Max
    /\ FLess(last.ret.Min, last.ret.Avg) /\ FLess(last.ret.Avg, last.ret.Max)

\* the numbers that the scan of an aggregation hands to its aggregator for
\* buffering: one for each event of the query's result with a number under
\* the field
Collected(store, q, field, first) ==
    IF field = <<>> THEN 0
    ELSE Len(SelectSeq(Query(store, q, first), LAMBDA ev : NumericUnder(ev, field)))

\* C29: an aggregation with a percentile, under a context that is not
\* cancelled, returns a result when the values it collects are at most
\* maxPercentileValues, and ErrTooManyValues with no result when they are
\* more; an aggregation without a percentile returns a result whatever the
\* number of values.
C29_PercentileCap ==
    last.op = "Aggregate" /\ last.ctx = Never /\ last.q.Limit = 0 =>
        IF /\ last.aggs \cap Percentiles # {}
           /\ Collected(kv, last.q, last.field, last.first) > maxPercentileValues
        THEN last.err = "ErrTooManyValues" /\ "ret" \notin DOMAIN last
        ELSE last.err = "nil" /\ "ret" \in DOMAIN last

\* an aggregation with percentiles has failed on the value past the cap
C29_Witness ==
    /\ last.op = "Aggregate" /\ last.ctx = Never
    /\ last.aggs \cap Percentiles # {}
    /\ last.err = "ErrTooManyValues"
    /\ Collected(kv, last.q, last.field, last.first) = maxPercentileValues + 1

\* C30: an Export that returns the cancellation error, whichever look at
\* the context found it cancelled, has written nothing to the caller's
\* writer, in JSON and in CSV.
C30_NoPartialExport ==
    last.op = "Export" /\ last.err = "Canceled" => last.written = <<>>

\* C31: an Export that succeeds for a query that no stored event matches
\* writes an empty JSON array in JSON format and nothing, not even a
\* header row, in CSV format.
C31_EmptyExport ==
    last.op = "Export" /\ last.err = "nil" /\ Matching(kv, last.q) = <<>> =>
        /\ last.format = "JSON" => last.written = <<[array |-> <<>>]>>
        /\ last.format = "CSV" => last.written = <<>>

\* C32: for every identifier, every type and every tag key and value, also
\* those that contain ':' or '=', the decoders of the primary key, of the
\* type-index key and of the tag-index key return the identifier the key
\* was built from.
C32_KeyRoundTrip ==
    last.op = "keys" =>
        /\ last.da.event = [ok |-> TRUE, id |-> last.a.id]
        /\ last.da.type = [ok |-> TRUE, id |-> last.a.id]
        /\ last.da.tag = [ok |-> TRUE, id |-> last.a.id]

\* the keys of a type and of a tag key that contain the delimiters have
\* been decoded
C32_Witness ==
    /\ last.op = "keys"
    /\ last.a.type = TypeAB /\ last.a.tagKey = TagJ /\ last.a.tagValue = TagVV
    /\ last.a.id.ms = MaxMs /\ last.a.id.ent = MaxEntropy
    /\ last.da.tag.ok /\ last.da.tag.id = last.a.id

\* the type-index keys of two inputs differ unless their types and
\* identifiers are the same
TypeKeysInjective ==
    last.ka.type = last.kb.type =>
        last.a.type = last.b.type /\ last.a.id = last.b.id

\* the tag-index keys of two inputs differ unless their tag keys, tag
\* values and identifiers are the same
TagKeysInjective ==
    last.ka.tag = last.kb.tag =>
        /\ last.a.tagKey = last.b.tagKey /\ last.a.tagValue = last.b.tagValue
        /\ last.a.id = last.b.id

\* the keys under the prefix of a type are those of that type, and the
\* keys under the prefix of a tag pair those of that pair
PrefixesExact ==
    /\ HasPrefix(last.kb.type, encodeTypeIndexPrefix(last.a.type)) =>
           last.b.type = last.a.type
    /\ HasPrefix(last.kb.tag, encodeTagIndexPrefix(last.a.tagKey, last.a.tagValue)) =>
           last.b.tagKey = last.a.tagKey /\ last.b.tagValue = last.a.tagValue

\* C33: the key encoders are injective: two different (type, id) pairs
\* never have the same type-index key, two different (tag key, tag value,
\* id) triples never have the same tag-index key, and every key under the
\* prefix of a type or of a tag pair belongs to exactly that type or pair.
C33_EncodersInjective ==
    last.op = "keys" => TypeKeysInjective /\ TagKeysInjective /\ PrefixesExact

\* C34: the primary keys sort chronologically: the stored events, taken in
\* ascending order of their primary keys, have non-decreasing timestamps,
\* whatever timestamps the callers supplied and in whatever order.
C34_PrimaryKeysChronological ==
    LET events == StoredEvents(kv)
    IN  \A i, j \in 1..Len(events) :
            i < j => events[i].Timestamp <= events[j].Timestamp

\* C35: a query with two or more tag filters returns the same events
\* whichever of its tags the planner takes as the driving index.
C35_PlanIndependent ==
    /\ last.op = "Query" /\ last.err = "nil"
    /\ Cardinality(DOMAIN last.arg.Tags) >= 2
    => \A first \in Firsts(last.arg) : Query(kv, last.arg, first) = last.ret

\* the plan of q is the full scan
ByFullScan(q) == Len(q.Types) # 1 /\ DOMAIN q.Tags = {}

RECURSIVE ScanEveryFrom(_, _, _, _)
\* a scan that visits every primary key in the direction of q, applies the
\* time range and the filters to each one and stops only at the limit
ScanEveryFrom(store, keys, q, events) ==
    IF keys = <<>> THEN events
    ELSE LET d == decodeEventKey(Head(keys))
             u == Unmarshal(ValueOf(store, Head(keys)))
         IN  IF \/ ~d.ok \/ ~matchesTimeRange(d.id, q)
                \/ ~u.ok \/ ~matchesFilters(u.event, q)
             THEN ScanEveryFrom(store, Tail(keys), q, events)
             ELSE IF q.Limit > 0 /\ Len(events) + 1 >= q.Limit
             THEN Append(events, u.event)
             ELSE ScanEveryFrom(store, Tail(keys), q, Append(events, u.event))

ScanEvery(store, q) ==
    ScanEveryFrom(store, ScanPrefix(store, eventKeyPrefix, q.Descending), q, <<>>)

RECURSIVE AddAll(_, _)
\* the aggregator after the events have been added one by one
AddAll(a, events) ==
    IF events = <<>> THEN a ELSE AddAll(add(a, Head(events)).a, Tail(events))

\* C36: a query answered by full scan, which stops at the first identifier
\* whose time is after End (ascending) or before Start (descending),
\* returns exactly the events of a scan that visits every primary key and
\* filters each one; an aggregation by full scan aggregates exactly those
\* events.
C36_EarlyStopPreserves ==
    /\ last.op = "Query" /\ last.err = "nil" /\ ByFullScan(last.arg) =>
           last.ret = ScanEvery(kv, last.arg)
    /\ last.op = "Aggregate" /\ last.err = "nil" /\ ByFullScan(last.q) =>
           last.ret = result(AddAll(newAggregator(last.field,
                                                   last.aggs \cap Percentiles # {}),
                                    ScanEvery(kv, [last.q EXCEPT !.Limit = 0])))

\* an ascending scan with an End has returned an event and has stopped
\* before a stored event of a later millisecond
C36_Witness ==
    /\ last.op = "Query" /\ last.err = "nil" /\ ByFullScan(last.arg)
    /\ ~last.arg.Descending /\ last.arg.End.some /\ last.arg.Limit = 0
    /\ Len(last.ret) > 0
    /\ \E i \in 1..Len(StoredEvents(kv)) :
           ulidTime(StoredEvents(kv)[i].ID) > last.arg.End.v

\* C37: Aggregate and Query agree on the matching events of every query,
\* with and without a limit and under every plan: the Count of an
\* aggregation without a field is the number of events that Query returns
\* for the same query on the same store.
C37_AggregateAgreesWithQuery ==
    last.op = "Aggregate" /\ last.err = "nil" /\ last.field = <<>> =>
        last.ret.Count = Len(Query(kv, last.q, last.first))

\* C38: on a closed handle no retention goroutine is running: once Close
\* has set db.closed no call starts one, every goroutine has left its
\* loop, and no cleanup pass runs on the closed substrate.
C38_NoTaskOnClosedHandle ==
    [][/\ closed => Len(tasks') = Len(tasks)
       /\ closed' => \A t \in 1..Len(tasks') : t \in Finished(tasks')
       /\ \A t \in 1..Len(tasks) :
              tasks[t].pc \in {"pass", "commit"} /\ tasks'[t].pc = "select" =>
                  badger = "open"]_vars

\* C39: a DeleteBefore that returns an error, also the error of the
\* transaction's commit, returns the count 0, which is the number of
\* primary records the call removed.
C39_ErrorCountsNothing ==
    [][last'.op = "DeleteBefore" /\ last'.err # "nil" =>
         last'.ret = 0 /\ Count(kv) - Count(kv') = 0]_vars

\* the keys that have the prefix p
KeysUnder(p) == {k \in ByteStrings : HasPrefix(k, p)}

\* t is strictly greater than every key that has the prefix p
Above(t, p) == \A k \in KeysUnder(p) : LexLess(k, t)

\* prefixEnd returns nil exactly for the prefixes of 0xFF bytes only
NilOnlyForFF ==
    last.end = <<>> <=> \A i \in 1..Len(last.p) : last.p[i] = ByteFF

\* what prefixEnd returns is strictly greater than every key with the prefix
EndIsAbove == last.end # <<>> => Above(last.end, last.p)

\* no byte string that is strictly greater than every key with the prefix
\* is smaller than what prefixEnd returns
EndIsLeast ==
    last.end # <<>> =>
        \A t \in ByteStrings : Above(t, last.p) => ~LexLess(t, last.end)

\* C40: for every non-empty prefix p, also one whose last byte is 0xFF,
\* prefixEnd(p) is the smallest byte string that is strictly greater than
\* every key with the prefix p, and it is nil only when every byte of p is
\* 0xFF.
C40_PrefixEndIsLeast ==
    last.op = "prefixEnd" => NilOnlyForFF /\ EndIsAbove /\ EndIsLeast

====
